---- MODULE Spec2Model ----
(***************************************************************************)
(* Model of github-trend-predictor: the trending-history store, the        *)
(* lookback labeler, the backfill driver, the event-rate aggregator, the   *)
(* feature enricher, the daily run and the feature-store clients.          *)
(*                                                                         *)
(* A date string "YYYY-MM-DD" is the tuple <<Y, M, D>> of its zero-padded  *)
(* fields, so that Python's string comparison is the lexicographic order   *)
(* of the tuple.  A datetime is the ordinal of its day, counted from       *)
(* January 1 of EpochYear (day 1).                                         *)
(***************************************************************************)
EXTENDS Integers, Sequences, FiniteSets, TLC

VARIABLES
    history,      \* TrendingHistory.history of the live object (a dict)
    disk,         \* the file at storage_path
    alive,        \* a TrendingHistory object exists in the running process
    lastOp,       \* the operation that produced this state
    args,         \* its arguments
    result,       \* its return value
    raised,       \* the exception that reached its caller, or "none"
    lastSave,     \* what the last _save of the live object logged
    nrecords,     \* number of add_trending_list calls so far
    pc,           \* run_backfill: position in the run
    day_offset,   \* run_backfill: loop variable
    failed_days,  \* run_backfill: failure counter
    all_features, \* run_backfill: accumulated rows
    days,         \* run_backfill: the days argument
    now,          \* run_backfill: datetime.now()
    fetchlog,     \* the requests made to the external sources, in order
    cache,        \* FeatureEnricher: _gh_archive_cache, its date, _hn_cache
    futures,      \* enrich_batch: the submitted tasks
    results,      \* enrich_batch: the records collected so far
    failed_count, \* enrich_batch: the failures counted so far
    epc,          \* enrich_batch: position in the call
    dpc,          \* run_daily_features: position in the run
    drun,         \* run_daily_features: today, repo_names, the frames
    steps,        \* run_daily_features: the steps the run has logged
    staging,      \* the unlabeled_<date>.csv files of DATA_DIR
    sink,         \* the feature group: label by (repo_name, collection_date)
    runs          \* number of daily runs started so far

vars == <<history, disk, alive, lastOp, args, result, raised, lastSave,
          nrecords, pc, day_offset, failed_days, all_features, days, now,
          fetchlog, cache, futures, results, failed_count, epc,
          dpc, drun, steps, staging, sink, runs>>

storeVars == <<history, disk, alive, lastSave, nrecords>>
backfillVars == <<pc, day_offset, failed_days, all_features, days, now>>
enrichVars == <<cache, futures, results, failed_count, epc>>
dailyVars == <<dpc, drun, steps, staging, sink, runs>>
pipelineVars == <<fetchlog, enrichVars, dailyVars>>

-----------------------------------------------------------------------------
(* Bounds *)

MaxRecords == 2
NumDays == 3
MaxLookback == 2

-----------------------------------------------------------------------------
(* Calendar: datetime.fromisoformat, strftime("%Y-%m-%d"), timedelta *)

EpochYear == 2024

None == <<>>
ValueError == -1

IsLeap(y) == (y % 4 = 0 /\ y % 100 # 0) \/ y % 400 = 0

DaysInMonth(y, m) ==
    IF m = 2 THEN (IF IsLeap(y) THEN 29 ELSE 28)
    ELSE IF m \in {4, 6, 9, 11} THEN 30 ELSE 31

DaysInYear(y) == IF IsLeap(y) THEN 366 ELSE 365

RECURSIVE DaysBeforeMonth(_, _)
DaysBeforeMonth(y, m) ==
    IF m <= 1 THEN 0 ELSE DaysBeforeMonth(y, m - 1) + DaysInMonth(y, m - 1)

RECURSIVE DaysBeforeYear(_)
DaysBeforeYear(y) ==
    IF y <= EpochYear THEN 0 ELSE DaysBeforeYear(y - 1) + DaysInYear(y - 1)

\* The days before the first of each month of EpochYear and the year after
MonthStart ==
    [y \in EpochYear..(EpochYear + 1) |->
        [m \in 1..12 |-> DaysBeforeYear(y) + DaysBeforeMonth(y, m)]]

\* datetime.fromisoformat on a "YYYY-MM-DD" string: the day, or ValueError
\* when the fields are no calendar date.
fromisoformat(s) ==
    IF /\ s[1] \in DOMAIN MonthStart
       /\ s[2] \in 1..12
       /\ s[3] \in 1..DaysInMonth(s[1], s[2])
    THEN MonthStart[s[1]][s[2]] + s[3]
    ELSE ValueError

RECURSIVE MonthOf(_, _, _)
MonthOf(y, m, n) ==
    IF n <= DaysInMonth(y, m) THEN <<y, m, n>>
    ELSE MonthOf(y, m + 1, n - DaysInMonth(y, m))

RECURSIVE YearOf(_, _)
YearOf(y, n) ==
    IF n <= DaysInYear(y) THEN MonthOf(y, 1, n)
    ELSE YearOf(y + 1, n - DaysInYear(y))

\* The calendar of EpochYear and the year after it, day by day
Calendar == [n \in 1..(DaysInYear(EpochYear) + DaysInYear(EpochYear + 1)) |->
                YearOf(EpochYear, n)]

\* dt.strftime("%Y-%m-%d")
strftime(n) == Calendar[n]

\* Python's str comparison on two "YYYY-MM-DD" strings
StrLess(a, b) ==
    \/ a[1] < b[1]
    \/ a[1] = b[1] /\ a[2] < b[2]
    \/ a[1] = b[1] /\ a[2] = b[2] /\ a[3] < b[3]

StrGeq(a, b) == ~StrLess(a, b)

RECURSIVE sorted(_)
sorted(S) ==
    IF S = {} THEN <<>>
    ELSE LET m == CHOOSE x \in S : \A z \in S : z = x \/ StrLess(x, z)
         IN  <<m>> \o sorted(S \ {m})

Range(s) == {s[i] : i \in DOMAIN s}

-----------------------------------------------------------------------------
(* Inputs *)

Repos == {"a/b", "c/d"}

RepoLists == {<<>>, <<"c/d">>, <<"a/b", "c/d">>}

\* 2024-11-28, the day before the first modelled day
BaseDay == fromisoformat(<<2024, 11, 28>>)

Day(i) == strftime(BaseDay + i)

ValidDates == {Day(i) : i \in 1..NumDays}

\* "2024-11-31": shaped like a date, no calendar date
BadDate == <<2024, 11, 31>>

DateStrings == ValidDates \cup {BadDate}

-----------------------------------------------------------------------------
(* TrendingHistory *)

EmptyHistory == [k \in {} |-> <<>>]

NoFile ==
    [exists |-> FALSE, readable |-> TRUE, text |-> TRUE, entries |-> <<>>,
     closed |-> FALSE]

\* A dump that loses the last member of the document
DumpShort(h) ==
    LET keys == sorted(DOMAIN h)
    IN  [i \in 1..(Len(keys) - 1) |-> <<keys[i], h[keys[i]]>>]

\* json.dump(self.history, f): one "key": [...] member per entry, then "}"
Dump(h) ==
    LET keys == sorted(DOMAIN h)
    IN  [i \in 1..Len(keys) |-> <<keys[i], h[keys[i]]>>]

\* json.load(f) on a complete document: the last member of a key wins
Parse(entries) ==
    [k \in {entries[i][1] : i \in DOMAIN entries} |->
        LET last == CHOOSE i \in DOMAIN entries :
                        /\ entries[i][1] = k
                        /\ \A j \in DOMAIN entries : entries[j][1] = k => j <= i
        IN  entries[last][2]]

\* TrendingHistory._load: <<history, exception>>
_load(dsk) ==
    IF dsk.exists
    THEN IF ~dsk.readable THEN <<EmptyHistory, "PermissionError">>
         ELSE IF ~dsk.text THEN <<EmptyHistory, "UnicodeDecodeError">>
         ELSE IF dsk.closed THEN <<Parse(dsk.entries), "none">>
         ELSE <<EmptyHistory, "none">>
    ELSE <<EmptyHistory, "none">>

\* A persist that leaves an existing complete document alone
WrittenOnce(h, dsk, fault, n) ==
    IF fault = "open" \/ (dsk.exists /\ dsk.closed) THEN dsk
    ELSE [exists   |-> TRUE,
          readable |-> IF dsk.exists THEN dsk.readable ELSE TRUE,
          text     |-> TRUE,
          entries  |-> IF fault = "none" THEN Dump(h) ELSE SubSeq(Dump(h), 1, n),
          closed   |-> fault = "none"]

\* What open(path, "w") + json.dump leave in the file. fault = "none": the
\* whole document; "open": open() failed, nothing touched; "write": the file
\* was truncated and only the first n members were written.
Written(h, dsk, fault, n) ==
    IF fault = "open" THEN dsk
    ELSE [exists   |-> TRUE,
          readable |-> IF dsk.exists THEN dsk.readable ELSE TRUE,
          text     |-> TRUE,
          entries  |-> IF fault = "none" THEN Dump(h) ELSE SubSeq(Dump(h), 1, n),
          closed   |-> fault = "none"]

\* An assignment that merges into the list already stored for the date
PutMerge(h, date, repo_names) ==
    [k \in DOMAIN h \cup {date} |->
        IF k = date
        THEN (IF date \in DOMAIN h THEN h[date] ELSE <<>>) \o repo_names
        ELSE h[k]]

\* self.history[date] = repo_names
Put(h, date, repo_names) ==
    [k \in DOMAIN h \cup {date} |-> IF k = date THEN repo_names ELSE h[k]]

\* A scan whose range excludes the end date
RECURSIVE ScanHistoryOpen(_, _, _, _)
ScanHistoryOpen(h, keys, start, end) ==
    IF keys = <<>> THEN {}
    ELSE LET date == fromisoformat(Head(keys))
             rest == ScanHistoryOpen(h, Tail(keys), start, end)
         IN  IF date = ValueError THEN rest
             ELSE IF start <= date /\ date < end
                  THEN Range(h[Head(keys)]) \cup rest
                  ELSE rest

\* The loop of get_trending_repos over self.history.items()
RECURSIVE ScanHistory(_, _, _, _)
ScanHistory(h, keys, start, end) ==
    IF keys = <<>> THEN {}
    ELSE LET date == fromisoformat(Head(keys))
             rest == ScanHistory(h, Tail(keys), start, end)
         IN  IF date = ValueError THEN rest
             ELSE IF start <= date /\ date <= end
                  THEN Range(h[Head(keys)]) \cup rest
                  ELSE rest

\* TrendingHistory.get_trending_repos: <<set, exception>>
get_trending_repos(h, start_date, end_date) ==
    LET start == fromisoformat(start_date)
        end   == fromisoformat(end_date)
    IN  IF start = ValueError \/ end = ValueError THEN <<{}, "ValueError">>
        ELSE <<ScanHistory(h, sorted(DOMAIN h), start, end), "none">>

is_trending_in_window(h, repo_name, start_date, end_date) ==
    repo_name \in get_trending_repos(h, start_date, end_date)[1]

get_date_range(h) ==
    IF DOMAIN h = {} THEN <<None, None>>
    ELSE LET dates == sorted(DOMAIN h)
         IN  <<dates[1], dates[Len(dates)]>>

-----------------------------------------------------------------------------
(* TrendingLabeler *)

\* A labeling window that starts on the collection date itself
LabelOfFromD(h, row, lookback_days) ==
    LET collection_dt == fromisoformat(row.collection_date)
    IN  IF collection_dt = ValueError THEN ValueError
        ELSE IF is_trending_in_window(h, row.repo_name,
                    strftime(collection_dt),
                    strftime(collection_dt + lookback_days))
             THEN 1 ELSE 0

\* The loop body of create_labels: the label of one row, or ValueError
LabelOf(h, row, lookback_days) ==
    LET collection_dt == fromisoformat(row.collection_date)
    IN  IF collection_dt = ValueError THEN ValueError
        ELSE LET start_date == strftime(collection_dt + 1)
                 end_date   == strftime(collection_dt + lookback_days)
             IN  IF is_trending_in_window(h, row.repo_name, start_date, end_date)
                 THEN 1 ELSE 0

\* A frame is a sequence of rows, a row a function from its column names
\* to its values.  df.columns
Columns(df) == IF Len(df) = 0 THEN {} ELSE DOMAIN df[1]

\* df.empty: no row or no column
empty(df) == Len(df) = 0 \/ Columns(df) = {}

\* row[c] = v on a copy of the row
WithColumn(row, c, v) ==
    [k \in DOMAIN row \cup {c} |-> IF k = c THEN v ELSE row[k]]

\* A labeling pass that leaves out the rows that already carry a label
create_labels_new(h, features_df, lookback_days) ==
    IF empty(features_df) THEN <<features_df, "none">>
    ELSE IF "collection_date" \notin Columns(features_df)
    THEN <<(<<>>), "ValueError">>
    ELSE IF "repo_name" \notin Columns(features_df)
    THEN <<(<<>>), "ValueError">>
    ELSE IF "is_trending" \in Columns(features_df)
    THEN <<(<<>>), "none">>
    ELSE LET labels == [i \in DOMAIN features_df |->
                           LabelOf(h, features_df[i], lookback_days)]
         IN  IF \E i \in DOMAIN labels : labels[i] = ValueError
             THEN <<(<<>>), "ValueError">>
             ELSE <<[i \in DOMAIN features_df |->
                        WithColumn(features_df[i], "is_trending", labels[i])],
                    "none">>

\* TrendingLabeler.create_labels: <<labeled rows, exception>>
create_labels(h, features_df, lookback_days) ==
    IF empty(features_df) THEN <<features_df, "none">>
    ELSE IF "collection_date" \notin Columns(features_df)
    THEN <<(<<>>), "ValueError">>
    ELSE IF "repo_name" \notin Columns(features_df)
    THEN <<(<<>>), "ValueError">>
    ELSE LET labels == [i \in DOMAIN features_df |->
                           LabelOf(h, features_df[i], lookback_days)]
         IN  IF \E i \in DOMAIN labels : labels[i] = ValueError
             THEN <<(<<>>), "ValueError">>
             ELSE <<[i \in DOMAIN features_df |->
                        WithColumn(features_df[i], "is_trending", labels[i])],
                    "none">>

\* TrendingLabeler.can_label_date: <<answer, exception>>
can_label_date(h, collection_date, lookback_days) ==
    LET collection_dt == fromisoformat(collection_date)
    IN  IF collection_dt = ValueError THEN <<FALSE, "ValueError">>
        ELSE LET required_end_date == strftime(collection_dt + lookback_days)
                 max_date == get_date_range(h)[2]
             IN  IF max_date = None THEN <<FALSE, "none">>
                 ELSE <<StrGeq(max_date, required_end_date), "none">>

-----------------------------------------------------------------------------
(* Initial state *)

\* The file before the first run: absent, truncated JSON, not readable by
\* the process, bytes that are no text, or a document of an earlier run.
InitDisks ==
    { NoFile,
      [exists |-> TRUE, readable |-> TRUE, text |-> TRUE, entries |-> <<>>,
       closed |-> FALSE],
      [exists |-> TRUE, readable |-> FALSE, text |-> TRUE, entries |-> <<>>,
       closed |-> TRUE],
      [exists |-> TRUE, readable |-> TRUE, text |-> FALSE, entries |-> <<>>,
       closed |-> FALSE],
      [exists |-> TRUE, readable |-> TRUE, text |-> TRUE,
       entries |-> <<<<Day(1), <<"a/b">>>>>>, closed |-> TRUE] }

Init ==
    /\ history = EmptyHistory
    /\ disk \in InitDisks
    /\ alive = FALSE
    /\ lastOp = "init"
    /\ args = [op |-> "init"]
    /\ result = None
    /\ raised = "none"
    /\ lastSave = "none"
    /\ nrecords = 0
    /\ pc = "idle"
    /\ day_offset = 0
    /\ failed_days = 0
    /\ all_features = <<>>
    /\ days = 0
    /\ now = 0
    /\ fetchlog = <<>>
    /\ cache = [gh_archive |-> <<>>, gh_archive_date |-> <<>>, hn |-> <<>>]
    /\ futures = <<>>
    /\ results = <<>>
    /\ failed_count = 0
    /\ epc = "idle"
    /\ dpc = "idle"
    /\ drun = [today |-> 0, repo_names |-> <<>>, features_df |-> <<>>,
               labeled_df |-> <<>>]
    /\ steps = <<>>
    /\ staging = [d \in {} |-> <<>>]
    /\ sink = [k \in {} |-> 0]
    /\ runs = 0

-----------------------------------------------------------------------------
(* Store operations *)

QueryOps ==
    {"members_in_range", "label", "can_label", "rates", "enrich_one",
     "enrich_batch", "publish"}

\* The caller is sequential: it reads a query's result before its next call.
NoPending == lastOp \notin QueryOps

\* TrendingHistory(storage_path): a new object on the same file
Construct ==
    /\ pc = "idle"
    /\ NoPending
    /\ LET r == _load(disk)
       IN  history' = r[1] /\ raised' = r[2] /\ alive' = (r[2] = "none")
    /\ lastOp' = "construct"
    /\ args' = [op |-> "construct"]
    /\ result' = None
    /\ lastSave' = "none"
    /\ UNCHANGED <<disk, nrecords, backfillVars, pipelineVars>>

\* add_trending_list(date, repo_names); the persist ends as fault says
AddTrendingList(date, repo_names, fault, n) ==
    /\ pc = "idle"
    /\ NoPending
    /\ alive
    /\ nrecords < MaxRecords
    /\ n \in 0..Len(Dump(Put(history, date, repo_names)))
    /\ fault = "write" \/ n = 0
    /\ history' = Put(history, date, repo_names)
    /\ disk' = Written(history', disk, fault, n)
    /\ lastSave' = IF fault = "none" THEN "ok" ELSE "failed"
    /\ raised' = "none"
    /\ lastOp' = "record"
    /\ args' = [op |-> "record", date |-> date, repo_names |-> repo_names]
    /\ result' = None
    /\ nrecords' = nrecords + 1
    /\ UNCHANGED <<alive, backfillVars, pipelineVars>>

\* The process is stopped inside _save of add_trending_list(date, repo_names):
\* before open(), after the truncation with n members written, or after the
\* document was completed.
Interrupted(date, repo_names, fault, n) ==
    /\ pc = "idle"
    /\ NoPending
    /\ alive
    /\ nrecords < MaxRecords
    /\ n \in 0..Len(Dump(Put(history, date, repo_names)))
    /\ fault = "write" \/ n = 0
    /\ disk' = Written(Put(history, date, repo_names), disk, fault, n)
    /\ history' = EmptyHistory
    /\ alive' = FALSE
    /\ lastSave' = "none"
    /\ raised' = "killed"
    /\ lastOp' = "interrupted"
    /\ args' = [op |-> "record", date |-> date, repo_names |-> repo_names]
    /\ result' = None
    /\ nrecords' = nrecords + 1
    /\ UNCHANGED <<backfillVars, pipelineVars>>

\* get_trending_repos(start_date, end_date)
GetTrendingRepos(start_date, end_date) ==
    /\ pc = "idle"
    /\ NoPending
    /\ alive
    /\ LET r == get_trending_repos(history, start_date, end_date)
       IN  result' = r[1] /\ raised' = r[2]
    /\ lastOp' = "members_in_range"
    /\ args' = [op |-> "members_in_range", start_date |-> start_date,
                end_date |-> end_date]
    /\ UNCHANGED <<storeVars, backfillVars, pipelineVars>>

\* create_labels(features_df, lookback_days)
CreateLabels(features_df, lookback_days) ==
    /\ pc = "idle"
    /\ NoPending
    /\ alive
    /\ LET r == create_labels(history, features_df, lookback_days)
       IN  result' = r[1] /\ raised' = r[2]
    /\ lastOp' = "label"
    /\ args' = [op |-> "label", features_df |-> features_df,
                lookback_days |-> lookback_days]
    /\ UNCHANGED <<storeVars, backfillVars, pipelineVars>>

\* can_label_date(collection_date, lookback_days)
CanLabelDate(collection_date, lookback_days) ==
    /\ pc = "idle"
    /\ NoPending
    /\ alive
    /\ LET r == can_label_date(history, collection_date, lookback_days)
       IN  result' = r[1] /\ raised' = r[2]
    /\ lastOp' = "can_label"
    /\ args' = [op |-> "can_label", collection_date |-> collection_date,
                lookback_days |-> lookback_days]
    /\ UNCHANGED <<storeVars, backfillVars, pipelineVars>>

\* The caller has read the result of its query.
Return ==
    /\ ~NoPending
    /\ lastOp' = "return"
    /\ args' = [op |-> "return"]
    /\ result' = None
    /\ raised' = "none"
    /\ UNCHANGED <<storeVars, backfillVars, pipelineVars>>

Faults == {"none", "open", "write"}

Rows == [repo_name : Repos, collection_date : DateStrings]

\* Batches of at most two rows; a batch of two holds two repositories.
Frames ==
    {<<>>} \cup {<<r>> : r \in Rows}
           \cup {<<r, q>> : r \in {x \in Rows : x.repo_name = "a/b"},
                            q \in {x \in Rows : x.repo_name = "c/d"}}

\* The store without persist faults, and the queries on it.
QueryNext ==
    \/ Construct
    \/ \E d \in DateStrings, L \in RepoLists : AddTrendingList(d, L, "none", 0)
    \/ \E s \in DateStrings, e \in DateStrings : GetTrendingRepos(s, e)
    \/ \E df \in Frames, lb \in 1..MaxLookback : CreateLabels(df, lb)
    \/ \E D \in DateStrings, lb \in 1..MaxLookback : CanLabelDate(D, lb)
    \/ Return

SpecQuery == Init /\ [][QueryNext]_vars

StoreNext ==
    \/ Construct
    \/ \E d \in DateStrings, L \in RepoLists, f \in Faults, n \in 0..NumDays + 1 :
          AddTrendingList(d, L, f, n)
    \/ \E d \in DateStrings, L \in RepoLists, f \in Faults, n \in 0..NumDays + 1 :
          Interrupted(d, L, f, n)

Next == StoreNext

Spec == Init /\ [][Next]_vars

-----------------------------------------------------------------------------
(* run_backfill *)

LookbackDays == 7

MaxBackfillDays == 2

\* datetime.now() of the run
Today == fromisoformat(<<2024, 12, 10>>)

\* The members of L at the positions S, in order
RECURSIVE Keep(_, _)
Keep(L, S) ==
    IF L = <<>> THEN <<>>
    ELSE LET front == Keep(SubSeq(L, 1, Len(L) - 1), S)
         IN  IF Len(L) \in S THEN Append(front, L[Len(L)]) ELSE front

\* The frames enrich_batch can return for repo_names: one row for each
\* repository whose task did not fail
EnrichBatch(repo_names) ==
    {Keep(repo_names, S) : S \in SUBSET DOMAIN repo_names}

\* C3: when backfill labels the accumulated rows, can_label holds for every
\* day of the backfill range.
C3_BackfillDaysLabelable ==
    pc = "labeled" =>
        \A off \in 0..days :
            can_label_date(history,
                           strftime(now - LookbackDays - days + off),
                           LookbackDays)[1]

-----------------------------------------------------------------------------
(* Claims about the store *)

RecordStep == lastOp' = "record" /\ nrecords' = nrecords + 1

\* C5: record(d, L) stores exactly L under d (it replaces, it never merges),
\* leaves every other date's list alone, and recording the list a date
\* already holds changes no members_in_range result.
C5_RecordOverwrites ==
    [][RecordStep =>
        LET d == args'.date
            L == args'.repo_names
        IN  /\ DOMAIN history' = DOMAIN history \cup {d}
            /\ history'[d] = L
            /\ \A k \in DOMAIN history \ {d} : history'[k] = history[k]
            /\ (d \in DOMAIN history /\ history[d] = L) =>
                   \A s \in ValidDates, e \in ValidDates :
                       get_trending_repos(history', s, e)
                           = get_trending_repos(history, s, e)]_vars

\* A date that held a list now holds only the list recorded last.
C5_Witness ==
    /\ lastOp = "record"
    /\ nrecords = 2
    /\ DOMAIN history = {Day(1)}
    /\ history[Day(1)] = <<"c/d">>
    /\ args.repo_names = <<"c/d">>

\* C6: when the process is stopped inside the persist of record, a reader of
\* the file sees the whole history of before the update or the whole history
\* after it.
C6_CrashConsistent ==
    [][(lastOp' = "interrupted" /\ nrecords' = nrecords + 1) =>
        _load(disk')[1] \in {_load(disk)[1],
                             Put(history, args'.date, args'.repo_names)}]_vars

\* C7: a record whose persist fails returns normally with the list stored in
\* memory and the other entries unchanged; a record whose persist succeeds
\* leaves a document on disk that reads back as the whole in-memory store.
C7_FailedPersist ==
    [][RecordStep =>
        /\ raised' = "none"
        /\ alive'
        /\ lastSave' = "failed" =>
               /\ history'[args'.date] = args'.repo_names
               /\ \A k \in DOMAIN history \ {args'.date} :
                      k \in DOMAIN history' /\ history'[k] = history[k]
        /\ lastSave' = "ok" =>
               /\ disk'.exists /\ disk'.closed
               /\ Parse(disk'.entries) = history']_vars

\* After a failed persist memory holds the new list and the file does not.
C7_Witness ==
    /\ lastOp = "record"
    /\ lastSave = "failed"
    /\ raised = "none"
    /\ nrecords = 2
    /\ Cardinality(DOMAIN history) = 2
    /\ _load(disk)[1] # history

\* C8: a TrendingHistory constructed on the file after a record whose persist
\* succeeded holds the mapping the writing process held in memory.
C8_SurvivesRestart ==
    [][(lastOp' = "construct" /\ alive /\ lastSave = "ok") =>
        /\ raised' = "none"
        /\ alive'
        /\ history' = history]_vars

\* A store of two dates was loaded back from the file.
C8_Witness ==
    /\ lastOp = "construct"
    /\ alive
    /\ nrecords = 2
    /\ Cardinality(DOMAIN history) = 2
    /\ \E k \in DOMAIN history : history[k] = <<"a/b", "c/d">>

\* C9: constructing the store never raises, and on a missing, unreadable or
\* corrupt file it starts as the empty history.
C9_ConstructNeverFails ==
    lastOp = "construct" =>
        /\ raised = "none"
        /\ (~disk.exists \/ ~disk.readable \/ ~disk.closed) =>
               history = EmptyHistory

\* C10: every key of the store parses as a calendar date.
C10_KeysAreDates ==
    \A k \in DOMAIN history : fromisoformat(k) # ValueError


-----------------------------------------------------------------------------
(* Claims about the queries *)

IsCalendarDate(s) == fromisoformat(s) # ValueError

\* C1: every labeled row carries 1 exactly when its repository is in the
\* list of a date d with D+1 <= d <= D+lookback_days, and 0 otherwise; the
\* rows come back in order, one per input row.
C1_LabelIsWindowMembership ==
    (lastOp = "label" /\ raised = "none") =>
        /\ Len(result) = Len(args.features_df)
        /\ \A i \in DOMAIN result :
               LET row == args.features_df[i]
                   D   == fromisoformat(row.collection_date)
                   hit == \E k \in DOMAIN history :
                              /\ IsCalendarDate(k)
                              /\ D + 1 <= fromisoformat(k)
                              /\ fromisoformat(k) <= D + args.lookback_days
                              /\ row.repo_name \in Range(history[k])
               IN  /\ result[i].repo_name = row.repo_name
                   /\ result[i].collection_date = row.collection_date
                   /\ result[i].is_trending = (IF hit THEN 1 ELSE 0)

\* Both repositories trended on 11-29 and on 12-01; with a one-day window the
\* row of 11-30 is labeled 1 (12-01 is D+1) and the row of 11-29 is labeled 0
\* (11-29 is D, 12-01 is D+lookback_days+1).
C1_Witness ==
    /\ lastOp = "label"
    /\ raised = "none"
    /\ args.lookback_days = 1
    /\ DOMAIN history = {Day(1), Day(3)}
    /\ history[Day(1)] = <<"a/b", "c/d">>
    /\ history[Day(3)] = <<"a/b", "c/d">>
    /\ Len(result) = 2
    /\ result[1].repo_name = "a/b"
    /\ result[1].collection_date = Day(2)
    /\ result[1].is_trending = 1
    /\ result[2].repo_name = "c/d"
    /\ result[2].collection_date = Day(1)
    /\ result[2].is_trending = 0

\* The calendar dates of the store on or after day n
DatesFrom(h, n) ==
    {k \in DOMAIN h : IsCalendarDate(k) /\ fromisoformat(k) >= n}

\* C2: can_label(D, lookback_days) is true exactly when the store is not
\* empty and its latest date is on or after D+lookback_days.
C2_CanLabelIffLatestReaches ==
    (lastOp = "can_label" /\ raised = "none") =>
        (result <=>
            /\ DOMAIN history # {}
            /\ DatesFrom(history, fromisoformat(args.collection_date)
                                      + args.lookback_days) # {})

\* C4: members_in_range(start, end) is the union of the lists of the dates d
\* with start <= d <= end; for a recorded date d, members_in_range(d, d) is
\* the set of names of its list.
C4_RangeIsInclusiveUnion ==
    (lastOp = "members_in_range" /\ raised = "none") =>
        /\ result = UNION {Range(history[k]) :
                              k \in {x \in DOMAIN history :
                                        /\ IsCalendarDate(x)
                                        /\ StrGeq(x, args.start_date)
                                        /\ StrGeq(args.end_date, x)}}
        /\ (args.start_date = args.end_date
               /\ args.start_date \in DOMAIN history) =>
               result = Range(history[args.start_date])

\* The range 11-29..12-01 takes in both of its end dates and skips a key
\* that is no date.
C4_Witness ==
    /\ lastOp = "members_in_range"
    /\ raised = "none"
    /\ args.start_date = Day(1)
    /\ args.end_date = Day(3)
    /\ DOMAIN history = {Day(1), Day(3)}
    /\ history[Day(1)] = <<"a/b">>
    /\ history[Day(3)] = <<"c/d">>
    /\ result = {"a/b", "c/d"}

-----------------------------------------------------------------------------
(* GHArchiveScraper *)

MaxHours == 2

\* The hours of day a caller samples
HoursOfDay == {0, 12, 23}

\* Lists of distinct hours of day, at most MaxHours long
HourLists ==
    {hs \in UNION {[1..n -> HoursOfDay] : n \in 0..MaxHours} :
        \A i, j \in DOMAIN hs : i # j => hs[i] # hs[j]}

\* The name extract_repo_name finds in an event that names no repository
\* (pandas drops the row)
NoRepo == "None"

\* One archived event: its type and the name of its repository
Event(type, repo) == [type |-> type, repo |-> repo]

\* The event lists an hour file can hold
Payloads ==
    { <<>>,
      <<Event("WatchEvent", "a/b")>>,
      <<Event("WatchEvent", "a/b"), Event("PushEvent", "a/b"),
        Event("WatchEvent", "a/b"), Event("WatchEvent", "a/b")>>,
      <<Event("PushEvent", "c/d"), Event("WatchEvent", NoRepo),
        Event("IssuesEvent", "a/b")>> }

\* What requests.get(url) and the decoding of its body can come to: the
\* events of the file, a status other than 200, a body that is no gzipped
\* JSON lines, or requests.get raising
Responses ==
    {[kind |-> "ok", events |-> p] : p \in Payloads}
        \cup {[kind |-> k, events |-> <<>>] : k \in {"status", "gzip", "raise"}}

\* GHArchiveScraper.fetch_hour_data: <<events, exception>>
fetch_hour_data(response) ==
    IF response.kind = "raise" THEN <<(<<>>), "ConnectionError">>
    ELSE IF response.kind = "ok" THEN <<response.events, "none">>
    ELSE <<(<<>>), "none">>

\* A bucket taken from the target's own calendar date, whatever the hour
HourTimeSameDay(target_date, hour_of_day) ==
    [day |-> target_date.day, hour |-> hour_of_day]

\* A datetime with an hour: the ordinal of its day and the hour of day.
\* target_date - timedelta(hours = (current_hour - hour_of_day) % 24)
HourTime(target_date, hour_of_day) ==
    LET hours_back == (target_date.hour - hour_of_day) % 24
        t == target_date.day * 24 + target_date.hour - hours_back
    IN  [day |-> t \div 24, hour |-> t % 24]

\* The (date_str, hour) bucket fetched for one requested hour
Bucket(target_date, hour_of_day) ==
    LET hour_time == HourTime(target_date, hour_of_day)
    IN  [source |-> "archive", date_str |-> strftime(hour_time.day),
         hour |-> hour_time.hour]

\* A size that counts the events of every type
RECURSIVE SizeAnyType(_, _, _)
SizeAnyType(events, repo_name, type) ==
    IF events = <<>> THEN 0
    ELSE SizeAnyType(Tail(events), repo_name, type)
         + (IF Head(events).repo = repo_name THEN 1 ELSE 0)

\* df[df["type"] == type].groupby("repo_name").size() at repo_name
RECURSIVE Size(_, _, _)
Size(events, repo_name, type) ==
    IF events = <<>> THEN 0
    ELSE Size(Tail(events), repo_name, type)
         + (IF Head(events).repo = repo_name /\ Head(events).type = type
            THEN 1 ELSE 0)

\* all_events after the loop over the first n requested hours
RECURSIVE AllEvents(_, _)
AllEvents(responses, n) ==
    IF n = 0 THEN <<>>
    ELSE AllEvents(responses, n - 1) \o fetch_hour_data(responses[n])[1]

\* An extrapolation by the number of hours that returned events
ExtrapolateAnswered(count, specific_hours, responses) ==
    LET answered == Cardinality({i \in DOMAIN responses :
                                    fetch_hour_data(responses[i])[1] # <<>>})
    IN  IF answered > 0 /\ 24 > answered THEN (count * 24) \div answered
        ELSE count

\* (count * extrapolation_factor).astype(int), applied when the factor
\* 24 / len(specific_hours) exceeds 1
Extrapolate(count, specific_hours, responses) ==
    IF 24 > Len(specific_hours) THEN (count * 24) \div Len(specific_hours)
    ELSE count

\* GHArchiveScraper.get_velocity_features_for_date; responses[i] is what the
\* fetch of the i-th requested hour comes to.  The table is a function from
\* the repositories with a star or a push event to their two rates.
get_velocity_features_for_date(target_date, specific_hours, responses) ==
    LET n == Len(specific_hours)
        buckets == [i \in 1..n |-> Bucket(target_date, specific_hours[i])]
        failing == {i \in 1..n : fetch_hour_data(responses[i])[2] # "none"}
    IN  IF n = 0
        THEN [features |-> <<>>, fetched |-> <<>>, exc |-> "ZeroDivisionError"]
        ELSE IF failing # {}
        THEN LET k == CHOOSE i \in failing : \A j \in failing : i <= j
             IN  [features |-> <<>>, fetched |-> SubSeq(buckets, 1, k),
                  exc |-> fetch_hour_data(responses[k])[2]]
        ELSE LET all_events == AllEvents(responses, n)
                 names == {all_events[i].repo : i \in DOMAIN all_events} \ {NoRepo}
                 listed == {r \in names :
                               \/ Size(all_events, r, "WatchEvent") > 0
                               \/ Size(all_events, r, "PushEvent") > 0}
             IN  [features |->
                      [r \in listed |->
                          [star_velocity |->
                               Extrapolate(Size(all_events, r, "WatchEvent"),
                                           specific_hours, responses),
                           commit_frequency |->
                               Extrapolate(Size(all_events, r, "PushEvent"),
                                           specific_hours, responses)]],
                  fetched |-> buckets,
                  exc |-> "none"]

\* The datetimes a caller passes as target_date
TargetDates == {[day |-> BaseDay + 1, hour |-> h] : h \in {12, 23}}

\* scraper.get_velocity_features_for_date(target_date, specific_hours)
GetVelocityFeaturesForDate(target_date, specific_hours, responses) ==
    /\ pc = "idle"
    /\ NoPending
    /\ Len(responses) = Len(specific_hours)
    /\ LET r == get_velocity_features_for_date(target_date, specific_hours,
                                               responses)
       IN  /\ result' = r.features
           /\ raised' = r.exc
           /\ fetchlog' = r.fetched
    /\ lastOp' = "rates"
    /\ args' = [op |-> "rates", target_date |-> target_date,
                specific_hours |-> specific_hours, responses |-> responses]
    /\ UNCHANGED <<storeVars, backfillVars, enrichVars, dailyVars>>

\* Every hour of three days: a day inside a month, the first of a month and
\* the first of a year
HourlyTargets ==
    {[day |-> d, hour |-> h] :
        d \in {BaseDay + 1, fromisoformat(<<2024, 12, 1>>),
                fromisoformat(<<2025, 1, 1>>)},
        h \in 0..23}

RatesNext ==
    \/ \E t \in TargetDates, hs \in HourLists :
          \E rs \in [DOMAIN hs -> Responses] :
              GetVelocityFeaturesForDate(t, hs, rs)
    \/ Return

SpecRates == Init /\ [][RatesNext]_vars

\* The hour lists asked for: every single hour of day, and the callers' list
HourlyLists == {<<h>> : h \in 0..23} \cup {<<12, 23>>}

\* The aggregator asked at every hour of the day; no hour file is delivered
HoursNext ==
    \/ \E t \in HourlyTargets, hs \in HourlyLists :
          GetVelocityFeaturesForDate(t, hs,
              [i \in DOMAIN hs |-> [kind |-> "status", events |-> <<>>]])
    \/ Return

\* The aggregator reads no history file
InitHours == Init /\ disk = NoFile

SpecHours == InitHours /\ [][HoursNext]_vars

-----------------------------------------------------------------------------
(* Claims about the event-rate aggregator *)

\* The events of the given type and repository in the hour files that were
\* delivered, as positions <<hour index, event index>>
Sampled(type, r) ==
    UNION {{<<i, j>> : j \in {k \in DOMAIN args.responses[i].events :
                                 /\ args.responses[i].events[k].type = type
                                 /\ args.responses[i].events[k].repo = r}} :
           i \in {h \in DOMAIN args.responses : args.responses[h].kind = "ok"}}

\* The requested hours whose fetch delivered no event list
FailedHours ==
    {i \in DOMAIN args.responses :
        args.responses[i].kind \in {"status", "gzip", "raise"}}

OneOfTwoFailed ==
    /\ lastOp = "rates"
    /\ raised = "none"
    /\ Len(args.specific_hours) = 2
    /\ Cardinality(FailedHours) = 1

\* C12 as stated: when one of two requested hours fails, every repository's
\* star velocity and commit frequency are 24 times its counts in the
\* surviving hour.
C12_SurvivorTimes24 ==
    OneOfTwoFailed =>
        \A r \in DOMAIN result :
            /\ result[r].star_velocity = 24 * Cardinality(Sampled("WatchEvent", r))
            /\ result[r].commit_frequency = 24 * Cardinality(Sampled("PushEvent", r))

\* C12 as amended: when one of two requested hours fails, every repository's
\* star velocity and commit frequency are 12 times (24 / 2 requested hours)
\* its counts in the surviving hour.
C12_SurvivorTimes12 ==
    OneOfTwoFailed =>
        \A r \in DOMAIN result :
            /\ result[r].star_velocity = 12 * Cardinality(Sampled("WatchEvent", r))
            /\ result[r].commit_frequency = 12 * Cardinality(Sampled("PushEvent", r))

C12_Witness ==
    /\ OneOfTwoFailed
    /\ "a/b" \in DOMAIN result
    /\ Cardinality(Sampled("WatchEvent", "a/b")) = 3
    /\ result["a/b"].star_velocity = 36

\* C13: when the fetch of a requested hour fails (bad status, bad body, or
\* the request itself failing), rates_for_date raises nothing, has fetched
\* every requested hour, and returns the table of the other hours, which is
\* empty when no hour delivered an event.
C13_NeverAbortsOnMissingHour ==
    (lastOp = "rates" /\ FailedHours # {}) =>
        /\ raised = "none"
        /\ Len(fetchlog) = Len(args.specific_hours)
        /\ DOMAIN result =
               {r \in Repos : Sampled("WatchEvent", r) \cup Sampled("PushEvent", r) # {}}

\* C27: the bucket fetched for the requested hour h has hour-of-day h and
\* lies 0 to 23 hours before the target: on the target's calendar date when
\* h is not after the target's hour, on the date before otherwise.
C27_BucketIsMostRecentHour ==
    lastOp = "rates" =>
        \A i \in DOMAIN fetchlog :
            LET t == args.target_date
                h == args.specific_hours[i]
                day == fromisoformat(fetchlog[i].date_str)
                hours_before == (t.day * 24 + t.hour)
                                    - (day * 24 + fetchlog[i].hour)
            IN  /\ fetchlog[i].hour = h
                /\ hours_before \in 0..23
                /\ day = (IF h <= t.hour THEN t.day ELSE t.day - 1)

\* At noon of December 1 the bucket of 12:00 is the one of that day and
\* the bucket of 23:00 the one of November 30
C27_Witness ==
    /\ lastOp = "rates"
    /\ args.target_date = [day |-> fromisoformat(<<2024, 12, 1>>), hour |-> 12]
    /\ args.specific_hours = <<12, 23>>
    /\ Len(fetchlog) = 2
    /\ fetchlog[1].date_str = <<2024, 12, 1>>
    /\ fetchlog[2].date_str = <<2024, 11, 30>>
    /\ fetchlog[2].hour = 23

-----------------------------------------------------------------------------
(* FeatureEnricher *)

\* An optional value is None or the one-element tuple holding it
Some(x) == <<x>>

\* pd.DataFrame(): a table without rows
EmptyFrame == <<>>

NoCache == [gh_archive |-> None, gh_archive_date |-> None, hn |-> None]

\* future.result(timeout=60)
TaskTimeout == 60

\* max_workers of the callers
max_workers == 5

\* created_at as the metadata source returns it: absent, a string that is
\* no timestamp, a timestamp ending in "Z", or a timestamp without timezone
CreatedAt(form, day, hour) == [form |-> form, day |-> day, hour |-> hour]

CreatedAts ==
    { CreatedAt("absent", 0, 0),
      CreatedAt("unparseable", 0, 0),
      CreatedAt("aware", BaseDay - 9, 23),
      CreatedAt("naive", BaseDay - 9, 23),
      CreatedAt("aware", BaseDay + 1, 13),
      CreatedAt("aware", BaseDay + 5, 0) }

\* What github_client.get_repo_details comes to: the details of a 200
\* response, {} for another status, an exception of requests.get, or a
\* request that never ends
Meta(kind, created_at) ==
    [kind |-> kind, stars_total |-> 100, forks_total |-> 10,
     language |-> "Python", created_at |-> created_at]

MetaOutcomes ==
    {Meta("ok", c) : c \in CreatedAts}
        \cup {Meta(k, CreatedAt("absent", 0, 0)) : k \in {"empty", "raise"}}

\* What one task of a batch meets: the outcome of its metadata request and
\* the seconds the task takes ("hang": the request never ends)
TaskWorlds ==
    {[meta |-> m, seconds |-> d] :
        m \in {Meta("ok", CreatedAt("aware", BaseDay - 9, 23)),
                Meta("ok", CreatedAt("naive", BaseDay - 9, 23)),
                Meta("empty", CreatedAt("absent", 0, 0)),
                Meta("raise", CreatedAt("absent", 0, 0))},
        d \in {1, 90}}
        \cup {[meta |-> Meta("hang", CreatedAt("absent", 0, 0)), seconds |-> 0]}

\* What hn_scraper.get_github_mentions comes to
HNOutcomes ==
    { [kind |-> "ok", table |-> ("a/b" :> 7)],
      [kind |-> "ok", table |-> EmptyFrame],
      [kind |-> "raise", table |-> EmptyFrame] }

\* What the hour files of 12:00 and 23:00 come to
BatchResponses ==
    { <<[kind |-> "ok",
         events |-> <<Event("WatchEvent", "a/b"), Event("PushEvent", "a/b"),
                      Event("WatchEvent", "a/b"), Event("WatchEvent", "a/b")>>],
        [kind |-> "ok", events |-> <<Event("WatchEvent", "a/b")>>]>>,
      <<[kind |-> "status", events |-> <<>>],
        [kind |-> "ok",
         events |-> <<Event("PushEvent", "c/d"), Event("WatchEvent", NoRepo),
                      Event("IssuesEvent", "a/b")>>]>>,
      <<[kind |-> "status", events |-> <<>>],
        [kind |-> "gzip", events |-> <<>>]>>,
      <<[kind |-> "ok", events |-> <<Event("WatchEvent", "a/b")>>],
        [kind |-> "raise", events |-> <<>>]>> }

\* FeatureEnricher._compute_days_old: <<days, exception>>.  current_date has
\* no timezone and is taken as UTC; a created_at without timezone cannot be
\* subtracted from it.
_compute_days_old(created_at, current_date) ==
    IF created_at.form = "absent" THEN <<0, "none">>
    ELSE IF created_at.form = "unparseable" THEN <<0, "none">>
    ELSE IF created_at.form = "naive" THEN <<0, "TypeError">>
    ELSE LET hours == (current_date.day * 24 + current_date.hour)
                      - (created_at.day * 24 + created_at.hour)
             d == hours \div 24
         IN  <<IF d > 0 THEN d ELSE 0, "none">>

\* A merge that drops the "Unknown" sentinel when the metadata source fails
MetadataFieldsBare(meta) ==
    IF meta.kind = "ok"
    THEN [stars_total |-> meta.stars_total, forks_total |-> meta.forks_total,
          language |-> meta.language, created_at |-> meta.created_at]
    ELSE [stars_total |-> 0, forks_total |-> 0, language |-> "",
          created_at |-> CreatedAt("absent", 0, 0)]

\* Step 1 of enrich_repo: the fields of the metadata source, or the defaults
MetadataFields(meta) ==
    IF meta.kind = "ok"
    THEN [stars_total |-> meta.stars_total, forks_total |-> meta.forks_total,
          language |-> meta.language, created_at |-> meta.created_at]
    ELSE [stars_total |-> 0, forks_total |-> 0, language |-> "Unknown",
          created_at |-> CreatedAt("absent", 0, 0)]

\* The log entry of one call of a rate or buzz source at the given time
Call(source, date) ==
    [source |-> source, date_str |-> strftime(date.day), hour |-> date.hour]

\* Step 2 of enrich_repo: the rate table read, its exception, and the
\* requests made: the cache when there is one, else a fetch for this call
ArchiveData(c, date, responses) ==
    IF c.gh_archive # None
    THEN [table |-> c.gh_archive[1], exc |-> "none", fetched |-> <<>>]
    ELSE LET r == get_velocity_features_for_date(date, <<12, 23>>, responses)
         IN  [table |-> r.features, exc |-> r.exc,
              fetched |-> <<Call("rates", date)>> \o r.fetched]

\* Step 3 of enrich_repo: the buzz table read, likewise
HNData(c, date, hn) ==
    IF c.hn # None
    THEN [table |-> c.hn[1], exc |-> "none", fetched |-> <<>>]
    ELSE [table |-> IF hn.kind = "ok" THEN hn.table ELSE EmptyFrame,
          exc |-> IF hn.kind = "ok" THEN "none" ELSE "ConnectionError",
          fetched |-> <<Call("hn", date)>>]

\* FeatureEnricher.enrich_repo under the cache c: the record (None when the
\* call raises), the exception and the requests made.  fork_rate and
\* stars_per_day are kept as <<numerator, denominator>>, popularity_score in
\* tenths.
enrich_repo(repo_name, date, meta, c, responses, hn) ==
    LET gh == MetadataFields(meta)
        archive == ArchiveData(c, date, responses)
        buzz == HNData(c, date, hn)
        listed == archive.exc = "none" /\ repo_name \in DOMAIN archive.table
        star_velocity ==
            IF listed THEN archive.table[repo_name].star_velocity ELSE 0
        commit_frequency ==
            IF listed THEN archive.table[repo_name].commit_frequency ELSE 0
        hn_buzz_score ==
            IF buzz.exc = "none" /\ repo_name \in DOMAIN buzz.table
            THEN buzz.table[repo_name] ELSE 0
        age == _compute_days_old(gh.created_at, date)
        max1(x) == IF x > 1 THEN x ELSE 1
    IN  [record |->
            IF age[2] # "none" THEN None
            ELSE Some([repo_name        |-> repo_name,
                       collection_date  |-> strftime(date.day),
                       stars_total      |-> gh.stars_total,
                       forks_total      |-> gh.forks_total,
                       star_velocity    |-> star_velocity,
                       commit_frequency |-> commit_frequency,
                       hn_buzz_score    |-> hn_buzz_score,
                       language         |-> gh.language,
                       days_old         |-> age[1],
                       fork_rate        |-> <<gh.forks_total, max1(gh.stars_total)>>,
                       popularity_score |-> 5 * star_velocity
                                            + 3 * gh.stars_total
                                            + 2 * gh.forks_total,
                       stars_per_day    |-> <<gh.stars_total, max1(age[1])>>]),
         exc |-> age[2],
         fetched |-> archive.fetched \o buzz.fetched]

\* enricher.enrich_repo(repo_name, date), called outside a batch
EnrichRepo(repo_name, date, meta, responses, hn) ==
    /\ pc = "idle"
    /\ epc = "idle"
    /\ NoPending
    /\ LET r == enrich_repo(repo_name, date, meta, cache, responses, hn)
       IN  /\ result' = r.record
           /\ raised' = r.exc
           /\ fetchlog' = r.fetched
    /\ lastOp' = "enrich_one"
    /\ args' = [op |-> "enrich_one", repo_name |-> repo_name, date |-> date,
                meta |-> meta, responses |-> responses, hn |-> hn]
    /\ UNCHANGED <<storeVars, backfillVars, enrichVars, dailyVars>>

\* A batch fetch that leaves the cache unset when the fetch raises
BatchArchiveCacheUnset(skip_gh_archive, r) ==
    IF skip_gh_archive THEN Some(EmptyFrame)
    ELSE IF r.exc # "none" THEN None
    ELSE Some(r.features)

\* _gh_archive_cache as enrich_batch sets it before the tasks are submitted;
\* r is what get_velocity_features_for_date came to
BatchArchiveCache(skip_gh_archive, r) ==
    IF skip_gh_archive \/ r.exc # "none" THEN Some(EmptyFrame)
    ELSE Some(r.features)

\* _hn_cache as enrich_batch sets it
BatchHNCache(skip_hn, hn) ==
    IF skip_hn \/ hn.kind # "ok" THEN Some(EmptyFrame) ELSE Some(hn.table)

\* enrich_batch up to the submission of the tasks.  responses and hn are what
\* the rate and buzz sources come to, worlds[i] what the task of
\* repo_names[i] meets.
EnrichBatchStart(repo_names, date, skip_gh_archive, skip_hn, responses, hn, worlds) ==
    /\ pc = "idle"
    /\ epc = "idle"
    /\ NoPending
    /\ DOMAIN worlds = DOMAIN repo_names
    /\ LET r == get_velocity_features_for_date(date, <<12, 23>>, responses)
       IN  /\ cache' =
                 [gh_archive |-> BatchArchiveCache(skip_gh_archive, r),
                  gh_archive_date |->
                      IF ~skip_gh_archive /\ r.exc = "none" THEN Some(date)
                      ELSE cache.gh_archive_date,
                  hn |-> BatchHNCache(skip_hn, hn)]
           /\ fetchlog' =
                 (IF skip_gh_archive THEN <<>>
                  ELSE <<Call("rates", date)>> \o r.fetched)
                 \o (IF skip_hn THEN <<>> ELSE <<Call("hn", date)>>)
    /\ futures' = [i \in DOMAIN repo_names |->
                      [repo |-> repo_names[i], state |-> "submitted",
                       record |-> None, exc |-> "none"]]
    /\ results' = <<>>
    /\ failed_count' = 0
    /\ epc' = "collecting"
    /\ lastOp' = "submit"
    /\ args' = [op |-> "enrich_batch", repo_names |-> repo_names,
                date |-> date, skip_gh_archive |-> skip_gh_archive,
                skip_hn |-> skip_hn, responses |-> responses, hn |-> hn,
                worlds |-> worlds]
    /\ result' = None
    /\ raised' = "none"
    /\ UNCHANGED <<storeVars, backfillVars, dailyVars>>

\* A worker that drops the rate cache once its task has read it
TaskRunClearing(i) ==
    /\ epc = "collecting"
    /\ i \in DOMAIN futures
    /\ futures[i].state = "submitted"
    /\ args.worlds[i].meta.kind # "hang"
    /\ Cardinality({j \in 1..(i - 1) : futures[j].state = "submitted"})
           < max_workers
    /\ LET r == enrich_repo(futures[i].repo, args.date, args.worlds[i].meta,
                            cache, args.responses, args.hn)
       IN  /\ futures' = [futures EXCEPT ![i] =
                             [repo |-> futures[i].repo, state |-> "done",
                              record |-> r.record, exc |-> r.exc]]
           /\ fetchlog' = fetchlog \o r.fetched
    /\ cache' = [cache EXCEPT !.gh_archive = Some(EmptyFrame)]
    /\ UNCHANGED <<storeVars, backfillVars, dailyVars, results,
                   failed_count, epc, lastOp, args, result, raised>>

\* A worker runs enrich_repo for the i-th submitted repository to its end.
\* The pool starts the tasks in the order of submission, max_workers at a
\* time.
TaskRun(i) ==
    /\ epc = "collecting"
    /\ i \in DOMAIN futures
    /\ futures[i].state = "submitted"
    /\ args.worlds[i].meta.kind # "hang"
    /\ Cardinality({j \in 1..(i - 1) : futures[j].state = "submitted"})
           < max_workers
    /\ LET r == enrich_repo(futures[i].repo, args.date, args.worlds[i].meta,
                            cache, args.responses, args.hn)
       IN  /\ futures' = [futures EXCEPT ![i] =
                             [repo |-> futures[i].repo, state |-> "done",
                              record |-> r.record, exc |-> r.exc]]
           /\ fetchlog' = fetchlog \o r.fetched
    /\ UNCHANGED <<storeVars, backfillVars, dailyVars, cache, results,
                   failed_count, epc, lastOp, args, result, raised>>

\* A loop body that counts no failure for a task that raised
CollectQuiet(i) ==
    /\ epc = "collecting"
    /\ i \in DOMAIN futures
    /\ futures[i].state = "done"
    /\ IF futures[i].exc = "none" /\ futures[i].record # None
       THEN /\ results' = Append(results, futures[i].record[1])
            /\ UNCHANGED failed_count
       ELSE /\ failed_count' =
                   IF futures[i].exc = "none" THEN failed_count + 1
                   ELSE failed_count
            /\ UNCHANGED results
    /\ futures' = [futures EXCEPT ![i].state = "yielded"]
    /\ UNCHANGED <<storeVars, backfillVars, dailyVars, cache, fetchlog, epc,
                   lastOp, args, result, raised>>

\* as_completed yields the finished future i and the loop body handles it:
\* future.result(timeout=60) returns the record or raises what the task
\* raised
Collect(i) ==
    /\ epc = "collecting"
    /\ i \in DOMAIN futures
    /\ futures[i].state = "done"
    /\ IF futures[i].exc = "none" /\ futures[i].record # None
       THEN /\ results' = Append(results, futures[i].record[1])
            /\ UNCHANGED failed_count
       ELSE /\ failed_count' = failed_count + 1
            /\ UNCHANGED results
    /\ futures' = [futures EXCEPT ![i].state = "yielded"]
    /\ UNCHANGED <<storeVars, backfillVars, dailyVars, cache, fetchlog, epc,
                   lastOp, args, result, raised>>

\* An end of the batch that keeps the cache when no record was collected
EnrichBatchReturnKeep ==
    /\ epc = "collecting"
    /\ \A i \in DOMAIN futures : futures[i].state = "yielded"
    /\ cache' = IF results = <<>> THEN cache ELSE NoCache
    /\ futures' = <<>>
    /\ results' = <<>>
    /\ failed_count' = 0
    /\ epc' = "idle"
    /\ lastOp' = "enrich_batch"
    /\ result' = results
    /\ raised' = "none"
    /\ UNCHANGED <<storeVars, backfillVars, dailyVars, fetchlog, args>>

\* Every future was yielded: the pool is shut down, the cache is cleared and
\* the frame of the collected records is returned; the locals of the call
\* are gone
EnrichBatchReturn ==
    /\ epc = "collecting"
    /\ \A i \in DOMAIN futures : futures[i].state = "yielded"
    /\ cache' = NoCache
    /\ futures' = <<>>
    /\ results' = <<>>
    /\ failed_count' = 0
    /\ epc' = "idle"
    /\ lastOp' = "enrich_batch"
    /\ result' = results
    /\ raised' = "none"
    /\ UNCHANGED <<storeVars, backfillVars, dailyVars, fetchlog, args>>

\* The sources of a batch that skips them are not asked: their outcome is
\* fixed to the one where nothing is delivered
Unreached ==
    <<[kind |-> "status", events |-> <<>>], [kind |-> "gzip", events |-> <<>>]>>

Unasked == [kind |-> "raise", table |-> EmptyFrame]

\* The dates the callers enrich for: datetime.now() of the run
EnrichDates == {[day |-> BaseDay + 1, hour |-> 12]}

EnrichNext ==
    \/ \E r \in Repos, d \in EnrichDates, m \in MetaOutcomes,
          rs \in BatchResponses, hn \in HNOutcomes :
          EnrichRepo(r, d, m, rs, hn)
    \/ \E L \in RepoLists, d \in EnrichDates, sg \in BOOLEAN, sh \in BOOLEAN :
          \E rs \in (IF sg THEN {Unreached} ELSE BatchResponses),
             hn \in (IF sh THEN {Unasked} ELSE HNOutcomes),
             w \in [DOMAIN L -> TaskWorlds] :
              EnrichBatchStart(L, d, sg, sh, rs, hn, w)
    \/ \E i \in 1..2 : TaskRun(i)
    \/ \E i \in 1..2 : Collect(i)
    \/ EnrichBatchReturn
    \/ Return

\* The enricher of a run that has no history file yet
InitEnrich == Init /\ disk = NoFile

SpecEnrich == InitEnrich /\ [][EnrichNext]_vars

-----------------------------------------------------------------------------
(* Claims about the feature merger *)

\* enrich_batch has returned and its frame is in result
BatchReturned == lastOp = "enrich_batch"

\* The number of calls of the given source in the log of requests
Calls(source) ==
    Cardinality({k \in DOMAIN fetchlog : fetchlog[k].source = source})

\* C14: when the metadata source fails for a repository of a batch (empty
\* result or exception) while the rate and buzz sources succeed, the
\* repository is in the returned batch with stars_total = 0,
\* forks_total = 0, language = "Unknown", and with the star_velocity,
\* commit_frequency and buzz score of the rate and buzz tables.
C14_MetadataFailureKeepsRepo ==
    BatchReturned =>
        \A i \in DOMAIN args.repo_names :
            ( /\ args.worlds[i].meta.kind \in {"empty", "raise"}
              /\ ~args.skip_gh_archive
              /\ \A h \in DOMAIN args.responses : args.responses[h].kind # "raise"
              /\ ~args.skip_hn
              /\ args.hn.kind = "ok" )
            => \E k \in DOMAIN result :
                   LET R == args.repo_names[i]
                   IN  /\ result[k].repo_name = R
                       /\ result[k].stars_total = 0
                       /\ result[k].forks_total = 0
                       /\ result[k].language = "Unknown"
                       /\ result[k].star_velocity =
                              12 * Cardinality(Sampled("WatchEvent", R))
                       /\ result[k].commit_frequency =
                              12 * Cardinality(Sampled("PushEvent", R))
                       /\ result[k].hn_buzz_score =
                              IF R \in DOMAIN args.hn.table
                              THEN args.hn.table[R] ELSE 0

C14_Witness ==
    /\ BatchReturned
    /\ \E i \in DOMAIN args.repo_names :
           /\ args.repo_names[i] = "a/b"
           /\ args.worlds[i].meta.kind = "raise"
    /\ \E k \in DOMAIN result :
           /\ result[k].repo_name = "a/b"
           /\ result[k].language = "Unknown"
           /\ result[k].star_velocity = 48
           /\ result[k].hn_buzz_score = 7

\* C15: for every creation timestamp of the metadata source (absent,
\* unparseable, with a timezone, without a timezone, in the future),
\* enrich_one returns a record, and its days_old is 0 when the timestamp is
\* missing, unparseable or later than the collection date, and else the whole
\* number of days from creation to collection.
C15_DaysOldNeverFails ==
    lastOp = "enrich_one" =>
        /\ raised = "none"
        /\ result # None
        /\ LET c == args.meta.created_at
               hours == (args.date.day * 24 + args.date.hour)
                        - (c.day * 24 + c.hour)
           IN  result[1].days_old =
                   IF args.meta.kind # "ok" \/ c.form \in {"absent", "unparseable"}
                   THEN 0
                   ELSE IF hours < 0 THEN 0 ELSE hours \div 24

\* C16: during one enrich_batch call, and when it has returned, the rate
\* source has been fetched exactly once (not at all when toggled off) and
\* the buzz source exactly once (not at all when toggled off), whether or not
\* the batch-level fetch succeeded: no task has fetched for itself.
C16_SourcesFetchedOncePerBatch ==
    (epc = "collecting" \/ BatchReturned) =>
        /\ Calls("rates") = IF args.skip_gh_archive THEN 0 ELSE 1
        /\ Calls("hn") = IF args.skip_hn THEN 0 ELSE 1

\* Two repositories were enriched after both batch-level fetches had failed
C16_Witness ==
    /\ BatchReturned
    /\ Len(result) = 2
    /\ ~args.skip_gh_archive
    /\ ~args.skip_hn
    /\ \E h \in DOMAIN args.responses : args.responses[h].kind = "raise"
    /\ args.hn.kind = "raise"
    /\ Calls("rates") = 1
    /\ Calls("hn") = 1

\* C17: whenever enrich_batch is not running, the rate cache, its date and
\* the buzz cache are unset, so an enrich_one called after a batch fetches
\* its own tables.
C17_CacheClearedAfterBatch ==
    /\ epc # "collecting" => cache = NoCache
    /\ lastOp = "enrich_one" => Calls("rates") = 1 /\ Calls("hn") = 1

\* A batch of two repositories returned without a record
C17_Witness ==
    /\ BatchReturned
    /\ Len(args.repo_names) = 2
    /\ result = <<>>
    /\ ~args.skip_gh_archive
    /\ cache = NoCache

\* C18: a task that takes longer than the timeout counts as a failure of its
\* repository (its record is not in the returned frame), and a task that
\* never ends does not keep enrich_batch from returning once the other
\* tasks were handled.
C18_SlowTaskCountsAsFailure ==
    /\ BatchReturned =>
           \A i \in DOMAIN args.repo_names :
               args.worlds[i].seconds > TaskTimeout =>
                   \A k \in DOMAIN result :
                       result[k].repo_name # args.repo_names[i]
    /\ ( /\ epc = "collecting"
         /\ \A i \in DOMAIN futures :
                \/ futures[i].state = "yielded"
                \/ args.worlds[i].meta.kind = "hang" )
       => ENABLED EnrichBatchReturn

\* The rates and the buzz score a record of the running batch must carry
\* when it was read from the batch's cache
FromCache(record) ==
    LET rates == cache.gh_archive[1]
        buzz == cache.hn[1]
        name == record.repo_name
    IN  /\ record.star_velocity =
               (IF name \in DOMAIN rates THEN rates[name].star_velocity ELSE 0)
        /\ record.commit_frequency =
               (IF name \in DOMAIN rates THEN rates[name].commit_frequency
                ELSE 0)
        /\ record.hn_buzz_score =
               (IF name \in DOMAIN buzz THEN buzz[name] ELSE 0)

\* C26: from the submission of the tasks until every future was yielded the
\* rate and buzz cache is set and does not change -- no task step and no
\* collecting step writes it; it is written when the batch starts and when
\* it returns; every record a task produced carries the rates and the buzz
\* score of that one cache.
C26_WorkersOnlyReadCache ==
    /\ [][/\ (epc = "collecting" /\ epc' = "collecting") => cache' = cache
          /\ cache' # cache =>
                 \/ epc = "idle" /\ epc' = "collecting"
                 \/ /\ epc = "collecting" /\ epc' = "idle"
                    /\ \A i \in DOMAIN futures : futures[i].state = "yielded"]_vars
    /\ [](epc = "collecting" =>
              /\ cache.gh_archive # None
              /\ cache.hn # None
              /\ \A i \in DOMAIN futures :
                     futures[i].record # None => FromCache(futures[i].record[1])
              /\ \A i \in DOMAIN results : FromCache(results[i]))

\* Two tasks of one batch have finished, both with the rates of the cached
\* table, one of them listed in it
C26_Witness ==
    /\ epc = "collecting"
    /\ Len(futures) = 2
    /\ \A i \in DOMAIN futures : futures[i].record # None
    /\ futures[1].record[1].star_velocity = 48
    /\ futures[2].record[1].star_velocity = 0
    /\ cache.gh_archive[1] # EmptyFrame

\* C30: enrich_batch returns without an exception, the records it returns
\* and the failures it counted add up to the repository names submitted,
\* each task being counted once, and every returned record carries the name
\* of a submitted repository.
C30_EveryRepoAccounted ==
    /\ [](epc = "collecting" =>
              /\ Len(futures) = Len(args.repo_names)
              /\ Len(results) + failed_count =
                     Cardinality({i \in DOMAIN futures :
                                     futures[i].state = "yielded"})
              /\ \A i \in DOMAIN results :
                     results[i].repo_name \in Range(args.repo_names))
    /\ [][lastOp' = "enrich_batch" /\ epc = "collecting" =>
              /\ raised' = "none"
              /\ result' = results
              /\ Len(result') + failed_count = Len(args.repo_names)
              /\ \A i \in DOMAIN result' :
                     result'[i].repo_name \in Range(args.repo_names)]_vars

\* A batch of two returned one record and had counted one failure
C30_Witness ==
    /\ BatchReturned
    /\ Len(args.repo_names) = 2
    /\ Len(result) = 1
    /\ args.worlds[1].meta.created_at.form = "naive"
    /\ result[1].repo_name = args.repo_names[2]

-----------------------------------------------------------------------------
(* run_daily_features *)

MaxRuns == 3

\* timedelta(days=7) and lookback_days=7 of the daily run
DailyLookback == 7

\* The days on which a daily run starts
DailyDays ==
    {BaseDay + 1, BaseDay + 2, BaseDay + 1 + DailyLookback,
     BaseDay + 2 + DailyLookback}

\* What get_trending_repos_with_retry and extract_repo_names come to
DailyLists == {<<>>, <<"a/b">>, <<"a/b", "c/d">>}

\* One line of the run's log: the step and the date it works on
Step(name, date) == [step |-> name, date |-> date]

\* feature_group.insert(df): an upsert by (repo_name, collection_date)
Upsert(snk, df) ==
    LET keys == {<<df[i].repo_name, df[i].collection_date>> : i \in DOMAIN df}
    IN  [k \in DOMAIN snk \cup keys |->
            IF k \in keys
            THEN LET last == CHOOSE i \in DOMAIN df :
                                /\ <<df[i].repo_name, df[i].collection_date>> = k
                                /\ \A j \in DOMAIN df :
                                       <<df[j].repo_name, df[j].collection_date>> = k
                                           => j <= i
                 IN  df[last].is_trending
            ELSE snk[k]]

\* unlabeled_file.unlink()
Unlink(files, date) == [d \in DOMAIN files \ {date} |-> files[d]]

today_str == strftime(drun.today)

seven_days_ago_str == strftime(drun.today - DailyLookback)

\* The scraper, the enricher and the labeler are constructed; today is read
DailyStart(day) ==
    /\ dpc \in {"idle", "done", "aborted"}
    /\ runs < MaxRuns
    /\ day >= drun.today
    /\ LET r == _load(disk)
       IN  /\ history' = r[1]
           /\ alive' = (r[2] = "none")
           /\ raised' = r[2]
           /\ dpc' = IF r[2] = "none" THEN "fetch" ELSE "aborted"
    /\ drun' = [today |-> day, repo_names |-> <<>>, features_df |-> <<>>,
                labeled_df |-> <<>>]
    /\ steps' = <<>>
    /\ runs' = runs + 1
    /\ lastSave' = "none"
    /\ lastOp' = "daily_start"
    /\ args' = [op |-> "daily", today |-> day]
    /\ UNCHANGED <<disk, nrecords, result, staging, sink, backfillVars,
                   fetchlog, enrichVars>>

\* 1. Fetch today's trending repos; return when there are none
DailyFetch(repo_names) ==
    /\ dpc = "fetch"
    /\ drun' = [drun EXCEPT !.repo_names = repo_names]
    /\ dpc' = IF repo_names = <<>> THEN "done" ELSE "record"
    /\ lastOp' = "daily_fetch"
    /\ UNCHANGED <<storeVars, args, result, raised, steps, staging, sink, runs,
                   backfillVars, fetchlog, enrichVars>>

\* A record step that keeps the snapshot only when it could be persisted
DailyRecordPersisted(fault) ==
    /\ dpc = "record"
    /\ history' = IF fault = "none"
                  THEN Put(history, today_str, drun.repo_names)
                  ELSE history
    /\ disk' = Written(history', disk, fault, 0)
    /\ lastSave' = IF fault = "none" THEN "ok" ELSE "failed"
    /\ nrecords' = nrecords + 1
    /\ steps' = Append(steps, Step("record", today_str))
    /\ dpc' = "enrich"
    /\ lastOp' = "daily_record"
    /\ UNCHANGED <<alive, args, result, raised, drun, staging, sink, runs,
                   backfillVars, fetchlog, enrichVars>>

\* 2. labeler.history.add_trending_list(today_str, repo_names)
DailyRecord(fault) ==
    /\ dpc = "record"
    /\ history' = Put(history, today_str, drun.repo_names)
    /\ disk' = Written(history', disk, fault, 0)
    /\ lastSave' = IF fault = "none" THEN "ok" ELSE "failed"
    /\ nrecords' = nrecords + 1
    /\ steps' = Append(steps, Step("record", today_str))
    /\ dpc' = "enrich"
    /\ lastOp' = "daily_record"
    /\ UNCHANGED <<alive, args, result, raised, drun, staging, sink, runs,
                   backfillVars, fetchlog, enrichVars>>

\* 3. enrich_batch(repo_names, today); return when the frame is empty; else
\* collection_date and the placeholder label -1 are set
DailyEnrich(kept) ==
    /\ dpc = "enrich"
    /\ kept \in EnrichBatch(drun.repo_names)
    /\ drun' = [drun EXCEPT !.features_df =
                   [i \in DOMAIN kept |->
                       [repo_name |-> kept[i], collection_date |-> today_str,
                        is_trending |-> -1]]]
    /\ steps' = Append(steps, Step("enrich", today_str))
    /\ dpc' = IF kept = <<>> THEN "done" ELSE "publish"
    /\ lastOp' = "daily_enrich"
    /\ UNCHANGED <<storeVars, args, result, raised, staging, sink, runs,
                   backfillVars, fetchlog, enrichVars>>

\* hops_client.insert_features(features_df): the insert succeeds or raises
DailyPublish(ok) ==
    /\ dpc = "publish"
    /\ IF ok
       THEN /\ sink' = Upsert(sink, drun.features_df)
            /\ steps' = Append(steps, Step("publish", today_str))
            /\ dpc' = "stage"
            /\ raised' = "none"
       ELSE /\ dpc' = "aborted"
            /\ raised' = "SinkError"
            /\ UNCHANGED <<sink, steps>>
    /\ lastOp' = "daily_publish"
    /\ UNCHANGED <<storeVars, args, result, drun, staging, runs,
                   backfillVars, fetchlog, enrichVars>>

\* features_df.to_csv(unlabeled_path)
DailyStage ==
    /\ dpc = "stage"
    /\ staging' = Put(staging, today_str, drun.features_df)
    /\ steps' = Append(steps, Step("stage", today_str))
    /\ dpc' = "check"
    /\ lastOp' = "daily_stage"
    /\ UNCHANGED <<storeVars, args, result, raised, drun, sink, runs,
                   backfillVars, fetchlog, enrichVars>>

\* A check that takes any staging copy of seven or more days ago
DailyCheckOlder ==
    /\ dpc = "check"
    /\ LET old == {d \in DOMAIN staging :
                      fromisoformat(d) <= drun.today - DailyLookback}
       IN  IF old # {}
           THEN /\ drun' = [drun EXCEPT !.labeled_df =
                               staging[CHOOSE d \in old : TRUE]]
                /\ steps' = Append(steps, Step("check", CHOOSE d \in old : TRUE))
                /\ dpc' = "label"
           ELSE /\ steps' = Append(steps, Step("check", seven_days_ago_str))
                /\ dpc' = "done"
                /\ UNCHANGED drun
    /\ lastOp' = "daily_check"
    /\ UNCHANGED <<storeVars, args, result, raised, staging, sink, runs,
                   backfillVars, fetchlog, enrichVars>>

\* 4. unlabeled_file.exists() for the date seven days ago; old_df is read
DailyCheck ==
    /\ dpc = "check"
    /\ IF seven_days_ago_str \in DOMAIN staging
       THEN /\ drun' = [drun EXCEPT !.labeled_df = staging[seven_days_ago_str]]
            /\ dpc' = "label"
       ELSE /\ dpc' = "done"
            /\ UNCHANGED drun
    /\ steps' = Append(steps, Step("check", seven_days_ago_str))
    /\ lastOp' = "daily_check"
    /\ UNCHANGED <<storeVars, args, result, raised, staging, sink, runs,
                   backfillVars, fetchlog, enrichVars>>

\* 5. labeled_df = labeler.create_labels(old_df, lookback_days=7)
DailyLabel ==
    /\ dpc = "label"
    /\ LET r == create_labels(history, drun.labeled_df, DailyLookback)
       IN  IF r[2] = "none"
           THEN /\ drun' = [drun EXCEPT !.labeled_df = r[1]]
                /\ steps' = Append(steps,
                                   Step("label", drun.labeled_df[1].collection_date))
                /\ dpc' = "publish_labeled"
                /\ raised' = "none"
           ELSE /\ dpc' = "aborted"
                /\ raised' = r[2]
                /\ UNCHANGED <<drun, steps>>
    /\ lastOp' = "daily_label"
    /\ UNCHANGED <<storeVars, args, result, staging, sink, runs,
                   backfillVars, fetchlog, enrichVars>>

\* A labeled publish that removes the staging copy whether or not the
\* insert succeeded
DailyPublishLabeledEager(ok) ==
    /\ dpc = "publish_labeled"
    /\ staging' = Unlink(staging, drun.labeled_df[1].collection_date)
    /\ IF ok
       THEN /\ sink' = Upsert(sink, drun.labeled_df)
            /\ steps' = Append(steps, Step("publish_labeled",
                                           drun.labeled_df[1].collection_date))
            /\ dpc' = "delete"
            /\ raised' = "none"
       ELSE /\ dpc' = "aborted"
            /\ raised' = "SinkError"
            /\ UNCHANGED <<sink, steps>>
    /\ lastOp' = "daily_publish_labeled"
    /\ UNCHANGED <<storeVars, args, result, drun, runs,
                   backfillVars, fetchlog, enrichVars>>

\* hops_client.insert_features(labeled_df): the insert succeeds or raises
DailyPublishLabeled(ok) ==
    /\ dpc = "publish_labeled"
    /\ IF ok
       THEN /\ sink' = Upsert(sink, drun.labeled_df)
            /\ steps' = Append(steps, Step("publish_labeled",
                                           drun.labeled_df[1].collection_date))
            /\ dpc' = "delete"
            /\ raised' = "none"
       ELSE /\ dpc' = "aborted"
            /\ raised' = "SinkError"
            /\ UNCHANGED <<sink, steps>>
    /\ lastOp' = "daily_publish_labeled"
    /\ UNCHANGED <<storeVars, args, result, drun, staging, runs,
                   backfillVars, fetchlog, enrichVars>>

\* unlabeled_file.unlink()
DailyDelete ==
    /\ dpc = "delete"
    /\ staging' = Unlink(staging, seven_days_ago_str)
    /\ steps' = Append(steps, Step("delete", seven_days_ago_str))
    /\ dpc' = "done"
    /\ lastOp' = "daily_delete"
    /\ UNCHANGED <<storeVars, args, result, raised, drun, sink, runs,
                   backfillVars, fetchlog, enrichVars>>

DailyNext ==
    \/ \E day \in DailyDays : DailyStart(day)
    \/ \E L \in DailyLists : DailyFetch(L)
    \/ \E f \in {"none", "open"} : DailyRecord(f)
    \/ \E K \in RepoLists \cup {<<"a/b">>} : DailyEnrich(K)
    \/ \E ok \in BOOLEAN : DailyPublish(ok)
    \/ DailyStage
    \/ DailyCheck
    \/ DailyLabel
    \/ \E ok \in BOOLEAN : DailyPublishLabeled(ok)
    \/ DailyDelete

\* The first daily run of an installation: no history file yet
InitDaily == Init /\ disk = NoFile

SpecDaily == InitDaily /\ [][DailyNext]_vars

-----------------------------------------------------------------------------
(* Claims about the daily run *)

\* The steps of a complete daily run, in the claimed order
DailyOrder ==
    << Step("record", today_str), Step("enrich", today_str),
       Step("publish", today_str), Step("stage", today_str),
       Step("check", seven_days_ago_str), Step("label", seven_days_ago_str),
       Step("publish_labeled", seven_days_ago_str),
       Step("delete", seven_days_ago_str) >>

\* The dates a run of the day in drun may touch, after the step
TouchedDates == {today_str', seven_days_ago_str'}

\* C19: the steps of a daily run are a prefix of: record today's snapshot,
\* enrich, publish with is_trending = -1, stage under today's date, look for
\* the staging copy of exactly lookback_days ago, label it, publish it,
\* delete it; a run that found no such copy stops at the check; and no step
\* changes the staging copy or the sink rows of any other date.
C19_DailyOrder ==
    /\ [](dpc # "idle" =>
              /\ Len(steps) <= Len(DailyOrder)
              /\ steps = SubSeq(DailyOrder, 1, Len(steps))
              /\ (dpc = "done" /\ Len(steps) = 5)
                     => seven_days_ago_str \notin DOMAIN staging
              /\ dpc \in {"label", "publish_labeled", "delete"}
                     => seven_days_ago_str \in DOMAIN staging)
    /\ [][/\ (dpc = "publish" /\ dpc' = "stage") =>
                 \A i \in DOMAIN drun.features_df :
                     sink'[<<drun.features_df[i].repo_name, today_str>>] = -1
          /\ \A d \in DOMAIN staging \ TouchedDates :
                 d \in DOMAIN staging' /\ staging'[d] = staging[d]
          /\ \A k \in DOMAIN sink :
                 k[2] \notin TouchedDates => sink'[k] = sink[k]]_vars

\* A run labeled, published and deleted the copy of seven days ago while the
\* copy of another date stayed
C19_Witness ==
    /\ dpc = "done"
    /\ Len(steps) = 8
    /\ DOMAIN staging = {today_str, strftime(BaseDay + 2)}
    /\ drun.today = BaseDay + 1 + DailyLookback

\* C20: a labeled publish that fails leaves the staging files as they are,
\* the copy of the labeled date included; a staging copy disappears only in
\* the step after the labeled publish of its date succeeded.
C20_StagingKeptOnFailedPublish ==
    [][/\ (dpc = "publish_labeled" /\ dpc' = "aborted") =>
              /\ staging' = staging
              /\ seven_days_ago_str \in DOMAIN staging'
       /\ \A d \in DOMAIN staging :
              d \notin DOMAIN staging' =>
                  /\ dpc = "delete"
                  /\ steps[Len(steps)] = Step("publish_labeled", d)
                  /\ \A i \in DOMAIN drun.labeled_df :
                         sink[<<drun.labeled_df[i].repo_name, d>>]
                             = drun.labeled_df[i].is_trending]_vars

\* The labeled publish failed and the copy of seven days ago is still there
C20_Witness ==
    /\ dpc = "aborted"
    /\ raised = "SinkError"
    /\ Len(steps) = 6
    /\ steps[6] = Step("label", seven_days_ago_str)
    /\ seven_days_ago_str \in DOMAIN staging

\* C29: when the daily run is about to label the staging copy of date D,
\* the History Store of the run holds an entry for D + lookback_days, which
\* is today's, and can_label_date(D, lookback_days) answers True.
C29_DailyLabelHasWindow ==
    dpc = "label" =>
        \A i \in DOMAIN drun.labeled_df :
            LET D == drun.labeled_df[i].collection_date
            IN  /\ strftime(fromisoformat(D) + DailyLookback) = today_str
                /\ today_str \in DOMAIN history
                /\ history[today_str] = drun.repo_names
                /\ can_label_date(history, D, DailyLookback) = <<TRUE, "none">>

\* A run is about to label the copy of seven days ago; today's snapshot is in
\* the store although it could not be persisted
C29_Witness ==
    /\ dpc = "label"
    /\ lastSave = "failed"
    /\ Len(drun.labeled_df) = 2
    /\ drun.labeled_df[1].collection_date = seven_days_ago_str
    /\ today_str \in DOMAIN history

-----------------------------------------------------------------------------
(* HopsworksClient.insert_features *)

\* required_cols of feature_pipeline/hopsworks_client.py, used by backfill
required_cols ==
    {"repo_name", "collection_date", "language", "stars_total", "forks_total",
     "star_velocity", "commit_frequency", "hn_buzz_score", "days_old",
     "fork_rate", "popularity_score", "is_trending"}

\* required_cols of pipelines/hopsworks_client.py, used by the daily run
required_cols_daily == required_cols \cup {"stars_per_day"}

\* HopsworksClient.insert_features(df) on the feature group snk: the sink
\* after the call and the exception.  connected: the client has a feature
\* group or can get one; ok: feature_group.insert succeeds.
insert_features(snk, df, required, connected, ok) ==
    LET missing_cols == required \ Columns(df)
    IN  IF ~connected THEN [sink |-> snk, exc |-> "RuntimeError"]
        ELSE IF missing_cols # {} THEN [sink |-> snk, exc |-> "ValueError"]
        ELSE IF \E i \in DOMAIN df :
                    fromisoformat(df[i].collection_date) = ValueError
        THEN [sink |-> snk, exc |-> "ValueError"]
        ELSE IF ~ok THEN [sink |-> snk, exc |-> "SinkError"]
        ELSE [sink |-> Upsert(snk, df), exc |-> "none"]

\* A row with every column of a feature record and a label
FullRow(repo_name, collection_date, is_trending) ==
    [repo_name |-> repo_name, collection_date |-> collection_date,
     language |-> "Python", stars_total |-> 100, forks_total |-> 10,
     star_velocity |-> 12, commit_frequency |-> 0, hn_buzz_score |-> 0,
     days_old |-> 12, fork_rate |-> <<10, 100>>, popularity_score |-> 380,
     stars_per_day |-> <<100, 12>>, is_trending |-> is_trending]

\* df.drop(columns=cols)
Drop(df, cols) ==
    [i \in DOMAIN df |-> [k \in DOMAIN df[i] \ cols |-> df[i][k]]]

\* Batches with every column
FullFrames ==
    { <<FullRow("a/b", Day(1), -1)>>,
      <<FullRow("a/b", Day(1), 1), FullRow("c/d", Day(2), 0)>>,
      <<FullRow("a/b", BadDate, 0)>> }

\* The batches a caller publishes or labels: complete ones, and ones that
\* lack one column, both key columns, or every column
ColumnFrames ==
    FullFrames
        \cup {Drop(df, {c}) : df \in FullFrames, c \in required_cols_daily}
        \cup {Drop(df, {"repo_name", "collection_date"}) : df \in FullFrames}
        \cup {Drop(<<FullRow("a/b", Day(1), -1)>>, required_cols_daily)}

\* client.insert_features(df) of a client that is connected or not
InsertFeatures(df, required, connected, ok) ==
    /\ pc = "idle"
    /\ dpc = "idle"
    /\ NoPending
    /\ LET r == insert_features(sink, df, required, connected, ok)
       IN  /\ sink' = r.sink
           /\ raised' = r.exc
    /\ result' = None
    /\ lastOp' = "publish"
    /\ args' = [op |-> "publish", df |-> df, required |-> required,
                connected |-> connected, ok |-> ok]
    /\ UNCHANGED <<storeVars, backfillVars, fetchlog, enrichVars, dpc, drun,
                   steps, staging, runs>>

\* The labeler and the sink client, called with batches of every shape
SinkNext ==
    \/ Construct
    \/ \E L \in {<<"a/b">>} : AddTrendingList(Day(2), L, "none", 0)
    \/ \E df \in ColumnFrames : CreateLabels(df, 1)
    \/ \E df \in ColumnFrames, rq \in {required_cols, required_cols_daily},
          c \in BOOLEAN, ok \in BOOLEAN :
          InsertFeatures(df, rq, c, ok)
    \/ Return

InitSink == Init /\ disk = NoFile

SpecSink == InitSink /\ [][SinkNext]_vars

\* The columns of a labeled feature record
FeatureRecordColumns == DOMAIN FullRow("a/b", Day(1), -1)

\* C23: a publish of a batch that lacks a column of the feature record
\* raises and leaves the sink as it was; a labeling of a batch with rows and
\* columns that lacks repo_name or collection_date raises ValueError and
\* returns no labels.
C23_StructuralFailureRaises ==
    [][/\ (lastOp' = "publish"
              /\ FeatureRecordColumns \ Columns(args'.df) # {}) =>
              /\ raised' # "none"
              /\ sink' = sink
       /\ (lastOp' = "label"
              /\ Len(args'.features_df) > 0
              /\ Columns(args'.features_df) # {}
              /\ {"repo_name", "collection_date"}
                     \ Columns(args'.features_df) # {}) =>
              /\ raised' = "ValueError"
              /\ result' = <<>>]_vars

-----------------------------------------------------------------------------
(* run_backfill *)

\* top_n_repos of run_backfill
top_n_repos == 50

\* The hour of datetime.now() of the run
NowHour == 12

\* The row order of the rate table: the outer merge sorts by repo_name
RepoRank == ("a/b" :> 1) @@ ("c/d" :> 2)

\* archive_df.nlargest(n, "star_velocity")["repo_name"].tolist()
RECURSIVE nlargest(_, _)
nlargest(table, n) ==
    IF n = 0 \/ DOMAIN table = {} THEN <<>>
    ELSE LET best == CHOOSE r \in DOMAIN table :
                         \A q \in DOMAIN table :
                             \/ table[r].star_velocity > table[q].star_velocity
                             \/ /\ table[r].star_velocity = table[q].star_velocity
                                /\ RepoRank[r] <= RepoRank[q]
             rest == [q \in DOMAIN table \ {best} |-> table[q]]
         IN  <<best>> \o nlargest(rest, n - 1)

\* enrich_batch(repo_names, date, skip_gh_archive, skip_hn) run to its end
\* on an enricher whose cache is c0, the records in the order of submission:
\* the frame returned, the failures counted, the requests made and the cache
\* the tasks read.  metas[i] is what the metadata request of repo_names[i]
\* comes to.
enrich_batch(c0, repo_names, date, skip_gh_archive, skip_hn, responses, hn, metas) ==
    LET r == get_velocity_features_for_date(date, <<12, 23>>, responses)
        c == [gh_archive |-> BatchArchiveCache(skip_gh_archive, r),
              gh_archive_date |->
                  IF ~skip_gh_archive /\ r.exc = "none" THEN Some(date)
                  ELSE c0.gh_archive_date,
              hn |-> BatchHNCache(skip_hn, hn)]
        recs == [i \in DOMAIN repo_names |->
                    enrich_repo(repo_names[i], date, metas[i], c, responses, hn)]
        done == {i \in DOMAIN repo_names :
                    recs[i].exc = "none" /\ recs[i].record # None}
        kept == Keep([i \in DOMAIN repo_names |-> i], done)
    IN  [frame |-> [k \in DOMAIN kept |-> recs[kept[k]].record[1]],
         failed_count |-> Len(repo_names) - Cardinality(done),
         fetched |-> (IF skip_gh_archive THEN <<>>
                      ELSE <<Call("rates", date)>> \o r.fetched)
                     \o (IF skip_hn THEN <<>> ELSE <<Call("hn", date)>>),
         cache |-> c]

\* current_date of the loop, as a day
CurrentDate == now - LookbackDays - days + day_offset

\* enricher, labeler, hops_client are constructed; the date range is set
BackfillStart(d, today) ==
    /\ pc \in {"idle", "done", "aborted"}
    /\ dpc \in {"idle", "done", "aborted"}
    /\ epc = "idle"
    /\ today >= now
    /\ LET r == _load(disk)
       IN  /\ history' = r[1]
           /\ raised' = r[2]
           /\ alive' = (r[2] = "none")
           /\ pc' = IF r[2] = "none" THEN "loop" ELSE "aborted"
    /\ days' = d
    /\ now' = today
    /\ day_offset' = 0
    /\ failed_days' = 0
    /\ all_features' = <<>>
    /\ cache' = NoCache
    /\ fetchlog' = <<>>
    /\ steps' = <<>>
    /\ runs' = runs + 1
    /\ lastOp' = "backfill_start"
    /\ args' = [op |-> "backfill", days |-> d]
    /\ result' = None
    /\ lastSave' = "none"
    /\ UNCHANGED <<disk, nrecords, futures, results, failed_count, epc,
                   dpc, drun, staging, sink>>

\* A loop over the days in which a failed day ends the run
BackfillDayStop(responses, enrich_responses, metas, fault, pool) ==
    /\ pc = "loop"
    /\ day_offset <= days
    /\ \E current_date \in {[day |-> CurrentDate, hour |-> NowHour]},
          date_str \in {strftime(CurrentDate)} :
       \E a \in {get_velocity_features_for_date(current_date, <<12, 23>>,
                                                responses)} :
       \E archive_df \in {a.features} :
       \E repo_names \in {nlargest(archive_df, top_n_repos)} :
       \E c0 \in {[gh_archive |-> Some(archive_df),
                    gh_archive_date |-> Some(current_date), hn |-> cache.hn]} :
       \E b \in {enrich_batch(c0, repo_names, current_date, FALSE, TRUE,
                              enrich_responses, Unasked, metas)} :
       \E features_df \in {[i \in DOMAIN b.frame |->
                              WithColumn(b.frame[i], "collection_date", date_str)]} :
           IF a.exc # "none" \/ archive_df = EmptyFrame
           THEN /\ failed_days' = failed_days + 1
                /\ pc' = "aborted"
                /\ fetchlog' = <<Call("rates", current_date)>> \o a.fetched
                /\ steps' = Append(steps, Step("failed", date_str))
                /\ UNCHANGED <<history, disk, lastSave, nrecords,
                               all_features, cache>>
           ELSE /\ history' = Put(history, date_str, repo_names)
                /\ disk' = Written(history', disk, fault, 0)
                /\ lastSave' = IF fault = "none" THEN "ok" ELSE "failed"
                /\ nrecords' = nrecords + 1
                /\ fetchlog' = <<Call("rates", current_date)>> \o a.fetched
                                   \o b.fetched
                /\ IF pool = "error"
                   THEN /\ failed_days' = failed_days + 1
                        /\ pc' = "aborted"
                        /\ cache' = b.cache
                        /\ steps' = Append(steps, Step("failed", date_str))
                        /\ UNCHANGED all_features
                   ELSE /\ cache' = NoCache
                        /\ pc' = pc
                        /\ all_features' = all_features \o features_df
                        /\ steps' = Append(steps,
                               Step(IF features_df = <<>> THEN "no_features"
                                    ELSE "enriched", date_str))
                        /\ UNCHANGED failed_days
    /\ day_offset' = day_offset + 1
    /\ lastOp' = "backfill_day"
    /\ args' = [op |-> "backfill_day", responses |-> responses,
                enrich_responses |-> enrich_responses, metas |-> metas,
                pool |-> pool]
    /\ result' = None
    /\ raised' = "none"
    /\ UNCHANGED <<alive, days, now, futures, results, failed_count, epc,
                   dpc, drun, staging, sink, runs>>

\* One iteration of the loop over day_offset.  responses: what the hour
\* files come to when the day's rate table is fetched; enrich_responses:
\* what they come to when enrich_batch fetches them; pool = "error": the
\* worker pool of enrich_batch cannot start its threads.
BackfillDay(responses, enrich_responses, metas, fault, pool) ==
    /\ pc = "loop"
    /\ day_offset <= days
    /\ \E current_date \in {[day |-> CurrentDate, hour |-> NowHour]},
          date_str \in {strftime(CurrentDate)} :
       \E a \in {get_velocity_features_for_date(current_date, <<12, 23>>,
                                                responses)} :
       \E archive_df \in {a.features} :
       \E repo_names \in {nlargest(archive_df, top_n_repos)} :
       \E c0 \in {[gh_archive |-> Some(archive_df),
                    gh_archive_date |-> Some(current_date), hn |-> cache.hn]} :
       \E b \in {enrich_batch(c0, repo_names, current_date, FALSE, TRUE,
                              enrich_responses, Unasked, metas)} :
       \E features_df \in {[i \in DOMAIN b.frame |->
                              WithColumn(b.frame[i], "collection_date", date_str)]} :
           IF a.exc # "none" \/ archive_df = EmptyFrame
           THEN /\ failed_days' = failed_days + 1
                /\ fetchlog' = <<Call("rates", current_date)>> \o a.fetched
                /\ steps' = Append(steps, Step("failed", date_str))
                /\ UNCHANGED <<history, disk, lastSave, nrecords,
                               all_features, cache>>
           ELSE /\ history' = Put(history, date_str, repo_names)
                /\ disk' = Written(history', disk, fault, 0)
                /\ lastSave' = IF fault = "none" THEN "ok" ELSE "failed"
                /\ nrecords' = nrecords + 1
                /\ fetchlog' = <<Call("rates", current_date)>> \o a.fetched
                                   \o b.fetched
                /\ IF pool = "error"
                   THEN /\ failed_days' = failed_days + 1
                        /\ cache' = b.cache
                        /\ steps' = Append(steps, Step("failed", date_str))
                        /\ UNCHANGED all_features
                   ELSE /\ cache' = NoCache
                        /\ all_features' = all_features \o features_df
                        /\ steps' = Append(steps,
                               Step(IF features_df = <<>> THEN "no_features"
                                    ELSE "enriched", date_str))
                        /\ UNCHANGED failed_days
    /\ day_offset' = day_offset + 1
    /\ lastOp' = "backfill_day"
    /\ args' = [op |-> "backfill_day", responses |-> responses,
                enrich_responses |-> enrich_responses, metas |-> metas,
                pool |-> pool]
    /\ result' = None
    /\ raised' = "none"
    /\ UNCHANGED <<alive, pc, days, now, futures, results, failed_count, epc,
                   dpc, drun, staging, sink, runs>>

\* A labeling pass that runs as soon as one day was processed
BackfillLabelEarly ==
    /\ pc = "loop"
    /\ day_offset >= 1
    /\ IF all_features = <<>>
       THEN /\ pc' = "done"
            /\ result' = None
            /\ raised' = "none"
       ELSE LET r == create_labels(history, all_features, LookbackDays)
            IN  /\ result' = r[1]
                /\ raised' = r[2]
                /\ pc' = IF r[2] = "none" THEN "labeled" ELSE "aborted"
    /\ lastOp' = "backfill_label"
    /\ args' = [op |-> "backfill_label"]
    /\ UNCHANGED <<storeVars, day_offset, failed_days, all_features, days, now,
                   pipelineVars>>

\* After the loop: return when nothing was collected, else label everything
BackfillLabel ==
    /\ pc = "loop"
    /\ day_offset = days + 1
    /\ IF all_features = <<>>
       THEN /\ pc' = "done"
            /\ result' = None
            /\ raised' = "none"
       ELSE LET r == create_labels(history, all_features, LookbackDays)
            IN  /\ result' = r[1]
                /\ raised' = r[2]
                /\ pc' = IF r[2] = "none" THEN "labeled" ELSE "aborted"
    /\ lastOp' = "backfill_label"
    /\ args' = [op |-> "backfill_label"]
    /\ UNCHANGED <<storeVars, day_offset, failed_days, all_features, days, now,
                   pipelineVars>>

\* connect, get_or_create_feature_group, insert_features(labeled_df); then
\* the summary is logged
BackfillPublish(ok) ==
    /\ pc = "labeled"
    /\ LET r == insert_features(sink, result, required_cols, TRUE, ok)
       IN  /\ sink' = r.sink
           /\ raised' = r.exc
           /\ pc' = IF r.exc = "none" THEN "done" ELSE "aborted"
           /\ steps' = IF r.exc = "none"
                       THEN Append(steps,
                                [step |-> "summary",
                                 processed |-> days + 1 - failed_days,
                                 failed |-> failed_days,
                                 uploaded |-> Len(result)])
                       ELSE steps
    /\ lastOp' = "backfill_publish"
    /\ args' = [op |-> "backfill_publish", labeled_df |-> result]
    /\ result' = None
    /\ UNCHANGED <<storeVars, day_offset, failed_days, all_features, days, now,
                   fetchlog, enrichVars, dpc, drun, staging, runs>>

\* One day of a backfill run: what the two fetches of the hour files, the
\* metadata requests, the persist of the snapshot and the worker pool come to
World(responses, enrich_responses, metas, fault, pool) ==
    [responses |-> responses, enrich_responses |-> enrich_responses,
     metas |-> metas, fault |-> fault, pool |-> pool]

BothListed ==
    <<[kind |-> "ok",
       events |-> <<Event("WatchEvent", "c/d"), Event("WatchEvent", "a/b"),
                    Event("WatchEvent", "c/d")>>],
      [kind |-> "ok", events |-> <<Event("PushEvent", "a/b")>>]>>

OneListed ==
    <<[kind |-> "status", events |-> <<>>],
      [kind |-> "ok", events |-> <<Event("WatchEvent", "a/b")>>]>>

NoEvents ==
    <<[kind |-> "status", events |-> <<>>], [kind |-> "gzip", events |-> <<>>]>>

Raising ==
    <<[kind |-> "ok", events |-> <<Event("WatchEvent", "a/b")>>],
      [kind |-> "raise", events |-> <<>>]>>

Aware == Meta("ok", CreatedAt("aware", BaseDay - 9, 23))

Naive == Meta("ok", CreatedAt("naive", BaseDay - 9, 23))

BackfillWorlds ==
    { World(BothListed, BothListed, <<Aware, Aware>>, "none", "ok"),
      World(BothListed, OneListed, <<Aware, Naive>>, "none", "ok"),
      World(OneListed, OneListed, <<Aware, Aware>>, "none", "ok"),
      World(OneListed, NoEvents, <<Aware, Aware>>, "open", "ok"),
      World(OneListed, Raising, <<Naive, Aware>>, "write", "ok"),
      World(OneListed, OneListed, <<Aware, Aware>>, "none", "error"),
      World(NoEvents, NoEvents, <<Aware, Aware>>, "none", "ok"),
      World(Raising, NoEvents, <<Aware, Aware>>, "none", "ok") }

BackfillNext ==
    \/ \E d \in 1..MaxBackfillDays, t \in (IF runs = 0 THEN {Today} ELSE {}) :
          BackfillStart(d, t)
    \/ \E w \in BackfillWorlds :
          BackfillDay(w.responses, w.enrich_responses, w.metas, w.fault, w.pool)
    \/ BackfillLabel
    \/ \E ok \in BOOLEAN : BackfillPublish(ok)

SpecBackfill == Init /\ [][BackfillNext]_vars

-----------------------------------------------------------------------------
(* Claims about the backfill run *)

\* The log lines of the days that were counted as failed
FailedSteps == {i \in DOMAIN steps : steps[i].step = "failed"}

\* The day the loop is about to process fails: its rate table is empty, its
\* fetch raises, or an error is raised after the snapshot was recorded
DayFails ==
    LET a == get_velocity_features_for_date(
                 [day |-> CurrentDate, hour |-> NowHour], <<12, 23>>,
                 args'.responses)
    IN  a.exc # "none" \/ a.features = EmptyFrame \/ args'.pool = "error"

\* C21: a day of the backfill range that fails adds exactly one to
\* failed_days, adds no row to all_features and leaves the loop running with
\* the next day; a day that does not fail leaves the counter alone; the
\* summary's processed and failed days add up to the days + 1 days of the
\* range, the failed ones being exactly the days logged as failed.
C21_FailedDayCounted ==
    /\ [][lastOp' = "backfill_day" /\ day_offset' # day_offset =>
              /\ day_offset' = day_offset + 1
              /\ DayFails => /\ failed_days' = failed_days + 1
                             /\ all_features' = all_features
                             /\ pc' = "loop"
                             /\ steps'[Len(steps')] =
                                    Step("failed", strftime(CurrentDate))
              /\ ~DayFails => failed_days' = failed_days]_vars
    /\ [](pc \in {"loop", "labeled"} =>
              /\ failed_days = Cardinality(FailedSteps)
              /\ Len(steps) = day_offset
              /\ \A i \in FailedSteps : \A j \in DOMAIN all_features :
                     all_features[j].collection_date # steps[i].date)
    /\ [](lastOp = "backfill_publish" /\ pc = "done" =>
              LET summary == steps[Len(steps)]
              IN  /\ summary.processed + summary.failed = days + 1
                  /\ summary.failed = Cardinality(FailedSteps)
                  /\ summary.processed =
                         Cardinality({i \in DOMAIN steps :
                             steps[i].step \in {"enriched", "no_features"}}))

\* A run over two days whose first day failed and whose second day was
\* enriched, labeled and published
C21_Witness ==
    /\ lastOp = "backfill_publish"
    /\ pc = "done"
    /\ days = 1
    /\ steps[1].step = "failed"
    /\ steps[2].step = "enriched"
    /\ steps[3].failed = 1

\* The dates of the backfill range
RangeDates == {strftime(now - LookbackDays - days + off) : off \in 0..days}

\* The run labels only after the loop has gone through every day, publishes
\* the labeled rows in one insert, and writes nothing to the sink otherwise
LabelOncePublishOnce ==
    [][/\ (lastOp' = "backfill_label" /\ pc = "loop") =>
              /\ day_offset = days + 1
              /\ Len(steps) = days + 1
              /\ pc' # "loop"
              /\ all_features = <<>> => pc' = "done" /\ result' = None
              /\ all_features # <<>> =>
                     result' = create_labels(history, all_features,
                                             LookbackDays)[1]
       /\ (lastOp' = "backfill_publish" /\ pc = "labeled" /\ pc' = "done") =>
              /\ sink' = Upsert(sink, result)
              /\ Len(result) = Len(all_features)
              /\ \A i \in DOMAIN result :
                     sink'[<<result[i].repo_name, result[i].collection_date>>]
                         = result[i].is_trending
       /\ sink' # sink => (lastOp' = "backfill_publish" /\ pc = "labeled")
       /\ pc' = "labeled" => pc = "loop" /\ all_features # <<>>]_vars

\* C25 as stated: labeling happens once, after the last day, against a
\* History Store that holds a snapshot for every day of the range; one
\* upsert publishes the labeled rows; nothing is labeled or published when
\* no day produced a row.
C25_LabelsSeeWholeRange ==
    /\ LabelOncePublishOnce
    /\ [](pc = "labeled" => RangeDates \subseteq DOMAIN history)

\* C25, amended: as above, with the History Store holding a snapshot for
\* every day of the range that was not counted as failed.
C25_LabelsSeeRecordedDays ==
    /\ LabelOncePublishOnce
    /\ [](pc = "labeled" =>
              \A i \in DOMAIN steps :
                  steps[i].step \in {"enriched", "no_features"} =>
                      /\ steps[i].date \in RangeDates
                      /\ steps[i].date \in DOMAIN history)

\* A run labeled and published the rows of its second day after its first
\* day had failed
C25_Witness ==
    /\ lastOp = "backfill_publish"
    /\ pc = "done"
    /\ days = 1
    /\ steps[1].step = "failed"
    /\ steps[1].date \notin DOMAIN history
    /\ \E k \in DOMAIN sink : k[2] = steps[2].date /\ sink[k] = 0

\* The requests for the rate table in the log of the last day
RateCalls == {i \in DOMAIN fetchlog : fetchlog[i].source = "rates"}

\* C28: after a day of the backfill loop that recorded a snapshot, the event
\* archive was asked for the day's rate table once, and every row the day
\* added carries the star_velocity and commit_frequency of the table its
\* top repositories were chosen from.
C28_EnrichUsesFetchedTable ==
    (/\ lastOp = "backfill_day"
     /\ steps[Len(steps)].step \in {"enriched", "no_features"}) =>
        LET date_str == steps[Len(steps)].date
            archive_df == get_velocity_features_for_date(
                              [day |-> fromisoformat(date_str), hour |-> NowHour],
                              <<12, 23>>, args.responses).features
        IN  /\ Cardinality(RateCalls) = 1
            /\ \A i \in DOMAIN all_features :
                   all_features[i].collection_date = date_str =>
                       /\ all_features[i].star_velocity =
                              archive_df[all_features[i].repo_name].star_velocity
                       /\ all_features[i].commit_frequency =
                              archive_df[all_features[i].repo_name].commit_frequency

-----------------------------------------------------------------------------
(* Backfill runs that follow one another *)

MaxBackfillRuns == 2

\* The days of a later run: both repositories listed, one listed, or an
\* empty archive result
RunWorlds ==
    { World(BothListed, BothListed, <<Aware, Aware>>, "none", "ok"),
      World(OneListed, OneListed, <<Aware, Aware>>, "none", "ok"),
      World(NoEvents, NoEvents, <<Aware, Aware>>, "none", "ok") }

RunsNext ==
    \/ \E d \in {1},
          t \in (IF runs < MaxBackfillRuns THEN {Today, Today + 1} ELSE {}) :
          BackfillStart(d, t)
    \/ \E w \in RunWorlds :
          BackfillDay(w.responses, w.enrich_responses, w.metas, w.fault, w.pool)
    \/ BackfillLabel
    \/ \E ok \in BOOLEAN : BackfillPublish(ok)

\* The first run of an installation: no history file yet
InitRuns == Init /\ disk = NoFile

SpecRuns == InitRuns /\ [][RunsNext]_vars

\* C22: a key of the sink that carries the label 0 or 1 keeps that label in
\* every later publish; a label changes only from -1 to 0 or to 1.
C22_LabelOnlyLeavesPlaceholder ==
    [][\A k \in DOMAIN sink :
           /\ k \in DOMAIN sink'
           /\ sink[k] \in {0, 1} => sink'[k] = sink[k]
           /\ sink'[k] # sink[k] => sink[k] = -1 /\ sink'[k] \in {0, 1}]_vars

=============================================================================
